---------------------------- MODULE Spec2Model ----------------------------
(***************************************************************************)
(* A model of the command-line scripts of eeg2025/downsample-datasets:     *)
(*   fix_events_duration.py                  (SpecFixFile, SpecFixMain)    *)
(*   format_conversion/convert_set_to_bdf.py,                              *)
(*   format_conversion/convert_set_to_edf.py (SpecConv)                    *)
(*   format_conversion/process_bdf_remove_cz.py (SpecCz)                   *)
(*   the three scripts above, for their JSON reports (SpecReports)         *)
(*   process_metadata.py                     (SpecPM)                      *)
(*   complete_bids_datasets.py               (SpecBids)                    *)
(*   utils/compare_signal_formats.py         (SpecCompare)                 *)
(* A Python string that the code edits or compares character by character  *)
(* (a path, the text of a table cell) is a sequence of one-character       *)
(* strings; a name that the code only compares for equality (a column      *)
(* name, a status) is a TLA+ string.                                       *)
(***************************************************************************)
EXTENDS Integers, Sequences, FiniteSets, TLC

VARIABLES
    prog,          \* the script that runs
    pc,            \* the position of the run inside main / the __main__ block
    args,          \* the parsed command line
    dirs,          \* the directories that exist
    fs,            \* the files that exist: path -> content
    fs0,           \* fs when the run started (history)
    files,         \* the list the main loop iterates over
    idx,           \* the number of loop iterations done
    report,        \* the in-memory report object
    counts,        \* the counters of main
    ret,           \* the value main (or the function under test) returned
    exit_status,   \* the exit status of the process
    trace          \* history: what the run did, in order

vars == <<prog, pc, args, dirs, fs, fs0, files, idx, report, counts, ret,
          exit_status, trace>>

--------------------------------------------------------------------------
(* Python strings                                                          *)

Digits == {"0", "1", "2", "3", "4", "5", "6", "7", "8", "9"}

\* str.replace(old, new): every non-overlapping occurrence, left to right.
RECURSIVE Replace(_, _, _)
Replace(s, old, new) ==
    IF Len(s) < Len(old) \/ old = <<>> THEN s
    ELSE IF SubSeq(s, 1, Len(old)) = old
         THEN new \o Replace(SubSeq(s, Len(old) + 1, Len(s)), old, new)
         ELSE <<Head(s)>> \o Replace(Tail(s), old, new)

\* str.isdigit(): not empty and every character a digit.
IsDigit(s) == s # <<>> /\ \A k \in 1..Len(s) : s[k] \in Digits

\* sub in s
Contains(s, sub) ==
    \E k \in 0..(Len(s) - Len(sub)) : SubSeq(s, k + 1, k + Len(sub)) = sub

\* s.endswith(suffix)
EndsWith(s, suffix) ==
    Len(s) >= Len(suffix) /\ SubSeq(s, Len(s) - Len(suffix) + 1, Len(s)) = suffix

\* The code points of the characters the model's paths are made of.
CharCode(c) ==
    CASE c = "." -> 46
      [] c = "/" -> 47
      [] c = "0" -> 48
      [] c = "1" -> 49
      [] c = "2" -> 50
      [] c = "3" -> 51
      [] c = "4" -> 52
      [] c = "5" -> 53
      [] c = "6" -> 54
      [] c = "7" -> 55
      [] c = "8" -> 56
      [] c = "9" -> 57
      [] c = "_" -> 95
      [] c = "a" -> 97
      [] c = "b" -> 98
      [] c = "c" -> 99
      [] c = "d" -> 100
      [] c = "e" -> 101
      [] c = "f" -> 102
      [] c = "g" -> 103
      [] c = "h" -> 104
      [] c = "i" -> 105
      [] c = "k" -> 107
      [] c = "l" -> 108
      [] c = "n" -> 110
      [] c = "o" -> 111
      [] c = "p" -> 112
      [] c = "s" -> 115
      [] c = "t" -> 116
      [] c = "u" -> 117
      [] c = "v" -> 118
      [] c = "x" -> 120
      [] OTHER -> 0

\* s < t for Python strings: lexicographic by code point.
RECURSIVE StrLess(_, _)
StrLess(s, t) ==
    IF t = <<>> THEN FALSE
    ELSE IF s = <<>> THEN TRUE
    ELSE IF Head(s) = Head(t) THEN StrLess(Tail(s), Tail(t))
    ELSE CharCode(Head(s)) < CharCode(Head(t))

\* sorted(S) for a set of strings.
RECURSIVE Sorted(_)
Sorted(S) ==
    IF S = {} THEN <<>>
    ELSE LET m == CHOOSE x \in S : \A y \in S \ {x} : StrLess(x, y)
         IN  <<m>> \o Sorted(S \ {m})

SeqToSet(s) == {s[k] : k \in 1..Len(s)}

--------------------------------------------------------------------------
(* Tab-separated tables as pandas reads and writes them                    *)

\* The text of a cell.
EmptyText == <<>>
NAText == <<"n", "/", "a">>
OneText == <<"1">>
WordText == <<"x">>

\* A missing value of a DataFrame (numpy.nan): no cell text equals it.
NaN == <<"NaN">>

\* pandas' default na_values, as far as the model's cell texts go.
DefaultNaValues == {EmptyText, NAText, <<"N", "A">>, <<"N", "a", "N">>,
                    <<"n", "a", "n">>, <<"n", "u", "l", "l">>}

IsIntText(t) == IsDigit(t) \/ (Len(t) > 1 /\ t[1] = "-" /\ IsDigit(Tail(t)))

IsFloatText(t) ==
    \E k \in 1..Len(t) :
        /\ t[k] = "."
        /\ IsIntText(SubSeq(t, 1, k - 1))
        /\ IsDigit(SubSeq(t, k + 1, Len(t)))

IsNumberText(t) == IsIntText(t) \/ IsFloatText(t)

\* str() of the float64 a numeric text is read as.
FloatRepr(t) == IF IsIntText(t) THEN t \o <<".", "0">> ELSE t

\* One column of pd.read_csv: the texts in na_values become NaN; a column whose
\* other texts are all numbers is numeric (int64 without NaN, float64 with),
\* any other column keeps its texts (dtype object).
ParseColumn(texts, na_values) ==
    LET isna(k) == texts[k] \in na_values
        numeric == \A k \in 1..Len(texts) : isna(k) \/ IsNumberText(texts[k])
        allint == \A k \in 1..Len(texts) : ~isna(k) /\ IsIntText(texts[k])
    IN  [k \in 1..Len(texts) |->
            IF isna(k) THEN NaN
            ELSE IF numeric /\ ~allint THEN FloatRepr(texts[k])
            ELSE texts[k]]

\* A table file: header is the sequence of column names, cols[j] the cell texts
\* of column j. A file with no header line cannot be read (EmptyDataError).
Readable(table) == table.header # <<>>

ReadCsv(table, na_values) ==
    [header |-> table.header,
     cols |-> [j \in 1..Len(table.header) |-> ParseColumn(table.cols[j], na_values)]]

\* DataFrame.to_csv(sep='\t', index=False, na_rep=...): str() of every value,
\* na_rep for NaN.
ToCsv(df, na_rep) ==
    [header |-> df.header,
     cols |-> [j \in 1..Len(df.header) |->
                 [k \in 1..Len(df.cols[j]) |->
                     IF df.cols[j][k] = NaN THEN na_rep ELSE df.cols[j][k]]]]

\* Series.isna().sum() + (Series == '').sum()
EmptyCount(col) == Cardinality({k \in 1..Len(col) : col[k] = NaN})
                   + Cardinality({k \in 1..Len(col) : col[k] = EmptyText})

RECURSIVE SumSeq(_)
SumSeq(s) == IF s = <<>> THEN 0 ELSE Head(s) + SumSeq(Tail(s))

\* Series.fillna(v) then Series.replace('', v)
FillEmpty(col, v) ==
    [k \in 1..Len(col) |-> IF col[k] = NaN \/ col[k] = EmptyText THEN v ELSE col[k]]

--------------------------------------------------------------------------
(* fix_events_duration.py                                                  *)

FixableNames == {"duration", "value", "event_code", "feedback",
                 "user_answer", "correct_answer"}

\* not val.replace('.', '').replace('-', '').isdigit()
LooksLikeString(val) ==
    ~IsDigit(Replace(Replace(val, <<".">>, <<>>), <<"-">>, <<>>))

\* The columns fix_events_file decides to fix (indices into the header).
ColumnsToFix(df) ==
    {j \in 1..Len(df.header) :
        /\ df.header[j] # "onset"
        /\ LET sample_values == SelectSeq(df.cols[j], LAMBDA v : v # NaN)
               has_strings == \E k \in 1..Len(sample_values) :
                                  /\ sample_values[k] # EmptyText
                                  /\ LooksLikeString(sample_values[k])
           IN  /\ Len(sample_values) > 0
               /\ (has_strings \/ df.header[j] \in FixableNames)}

\* fix_events_file on the content of one file: the value returned, whether the
\* file is written back, and the content of the file afterwards.
FixEventsFile(table) ==
    IF ~Readable(table)
    THEN [ret |-> "False", written |-> FALSE, table |-> table]
    ELSE
    LET df == ReadCsv(table, DefaultNaValues)
        total_empty_before ==
            SumSeq([j \in 1..Len(df.header) |-> EmptyCount(df.cols[j])])
        columns_to_fix == ColumnsToFix(df)
        fixed == {j \in columns_to_fix : EmptyCount(df.cols[j]) > 0}
        changes_made == fixed # {}
        df2 == [header |-> df.header,
                cols |-> [j \in 1..Len(df.header) |->
                            IF j \in fixed THEN FillEmpty(df.cols[j], NAText)
                            ELSE df.cols[j]]]
    IN  IF total_empty_before > 0 /\ changes_made
        THEN [ret |-> "True", written |-> TRUE, table |-> ToCsv(df2, EmptyText)]
        ELSE [ret |-> "False", written |-> FALSE, table |-> table]


--------------------------------------------------------------------------
(* The events.tsv files the model hands to the events fixer                *)

MaxRows == 2
MaxCalls == 2
MaxDatasets == 1

ColNames == {"onset", "duration", "score"}
CellTexts == {EmptyText, NAText, OneText, WordText}

\* Tables of two columns (BIDS: onset and one more, in any order, or two
\* others) and 1..MaxRows rows.
Headers == {h \in ColNames \X ColNames : h[1] # h[2]}

TablesOfRows(n) ==
    {[header |-> h, cols |-> <<c1, c2>>] :
        h \in Headers,
        c1 \in [1..n -> CellTexts], c2 \in [1..n -> CellTexts]}

EventTables == UNION {TablesOfRows(n) : n \in 1..MaxRows}

\* A file of zero bytes.
EmptyFile == [header |-> <<>>, cols |-> <<>>]

NRows(table) == IF table.header = <<>> THEN 0 ELSE Len(table.cols[1])

ColIndex(table, name) == CHOOSE j \in 1..Len(table.header) : table.header[j] = name

HasCol(table, name) == \E j \in 1..Len(table.header) : table.header[j] = name

--------------------------------------------------------------------------
(* SpecFixFile: fix_events_file called on one file, up to MaxCalls times   *)

EventsFilePath == <<"a", "_", "e", "v", "e", "n", "t", "s", ".", "t", "s", "v">>

Unused == <<>>

InitFixFile ==
    /\ prog = "fix_events_file"
    /\ pc = "ready"
    /\ args = Unused
    /\ dirs = {}
    /\ \E t \in EventTables \cup {EmptyFile} : fs = (EventsFilePath :> t)
    /\ fs0 = fs
    /\ files = <<EventsFilePath>>
    /\ idx = 0
    /\ report = Unused
    /\ counts = Unused
    /\ ret = "-"
    /\ exit_status = -1
    /\ trace = <<>>

\* One call fix_events_file(events_file_path).
CallFixEventsFile ==
    /\ prog = "fix_events_file"
    /\ idx < MaxCalls
    /\ LET r == FixEventsFile(fs[EventsFilePath])
       IN  /\ fs' = [fs EXCEPT ![EventsFilePath] = r.table]
           /\ ret' = r.ret
           /\ trace' = Append(trace, [before |-> fs[EventsFilePath],
                                      ret |-> r.ret, written |-> r.written])
    /\ idx' = idx + 1
    /\ UNCHANGED <<prog, pc, args, dirs, fs0, files, report, counts, exit_status>>

NextFixFile == CallFixEventsFile

SpecFixFile == InitFixFile /\ [][NextFixFile]_vars


--------------------------------------------------------------------------
(* SpecFixMain: fix_events_duration.py run as a program                    *)

StartsWith(s, prefix) == Len(s) >= Len(prefix) /\ SubSeq(s, 1, Len(prefix)) = prefix

\* base_path = Path("/Volumes/data/HBN"), written short.
BasePath == <<"/", "H", "B", "N">>

NumDatasets == 12

DecimalDigit(d) == CASE d = 0 -> "0" [] d = 1 -> "1" [] d = 2 -> "2" [] d = 3 -> "3"
                     [] d = 4 -> "4" [] d = 5 -> "5" [] d = 6 -> "6" [] d = 7 -> "7"
                     [] d = 8 -> "8" [] d = 9 -> "9"

\* str(r) for r >= 0
RECURSIVE Decimal(_)
Decimal(r) == IF r < 10 THEN <<DecimalDigit(r)>>
              ELSE Decimal(r \div 10) \o <<DecimalDigit(r % 10)>>

\* base_path / f"R{r}_L100"
DatasetPath(r) == BasePath \o <<"/", "R">> \o Decimal(r) \o <<"_", "L", "1", "0", "0">>

EventsSuffix == <<"e", "v", "e", "n", "t", "s", ".", "t", "s", "v">>

\* list(dataset_path.rglob("*events.tsv"))
RglobEvents(fsys, dataset_path) ==
    {p \in DOMAIN fsys : StartsWith(p, dataset_path \o <<"/">>) /\ EndsWith(p, EventsSuffix)}

\* fix_dataset: the files after the call and the value returned (fixed_count).
FixDataset(fsys, dirset, dataset_path) ==
    IF dataset_path \notin dirset THEN [fs |-> fsys, fixed_count |-> 0]
    ELSE LET events_files == RglobEvents(fsys, dataset_path)
         IN  [fs |-> [p \in DOMAIN fsys |->
                        IF p \in events_files THEN FixEventsFile(fsys[p]).table
                        ELSE fsys[p]],
              fixed_count |-> Cardinality({p \in events_files :
                                             FixEventsFile(fsys[p]).ret = "True"})]

\* What the __main__ block makes of main's return value: sys.exit(main())
\* exits with it (None is 0), a bare main() drops it and the interpreter
\* exits with 0.
SysExitScripts == {"convert_set_to_bdf", "convert_set_to_edf", "process_bdf_remove_cz",
                   "complete_bids_datasets", "compare_signal_formats"}

\* A __main__ block that calls main() without sys.exit.
ExitStatusDropped(script, value) == 0

ExitStatusOf(script, value) ==
    IF script \in SysExitScripts
    THEN (IF value = "1" THEN 1 ELSE 0)
    ELSE 0

\* The interpreter leaves the __main__ block.
ProcessExit ==
    /\ pc = "returned"
    /\ pc' = "exited"
    /\ exit_status' = ExitStatusOf(prog, ret)
    /\ UNCHANGED <<prog, args, dirs, fs, fs0, files, idx, report, counts, ret, trace>>

MainTables == TablesOfRows(1) \cup {EmptyFile}

DatasetEventsFile(r) == DatasetPath(r) \o <<"/">> \o EventsFilePath

InitFixMain ==
    /\ prog = "fix_events_duration"
    /\ pc = "start"
    /\ args = Unused
    /\ \E present \in SUBSET (1..MaxDatasets) :
         /\ dirs \in {{}, {BasePath} \cup {DatasetPath(r) : r \in present}}
         /\ \E withfile \in SUBSET present :
              fs \in [{DatasetEventsFile(r) : r \in withfile} -> MainTables]
         /\ (dirs = {} => present = {})
         /\ (BasePath \notin dirs => fs = << >>)
    /\ fs0 = fs
    /\ files = <<>>
    /\ idx = 0
    /\ report = Unused
    /\ counts = [total_fixed |-> 0, total_datasets |-> 0]
    /\ ret = "-"
    /\ exit_status = -1
    /\ trace = <<>>

\* main up to the loop: the check of base_path.
FixMainStart ==
    /\ prog = "fix_events_duration" /\ pc = "start"
    /\ IF BasePath \notin dirs
       THEN pc' = "returned" /\ ret' = "1"
       ELSE pc' = "loop" /\ ret' = ret
    /\ UNCHANGED <<prog, args, dirs, fs, fs0, files, idx, report, counts,
                   exit_status, trace>>

\* One iteration of `for r in range(1, 13)`: fix_dataset and the counters.
FixMainDataset ==
    /\ prog = "fix_events_duration" /\ pc = "loop" /\ idx < NumDatasets
    /\ LET r == FixDataset(fs, dirs, DatasetPath(idx + 1))
       IN  /\ fs' = r.fs
           /\ counts' = [total_fixed |-> counts.total_fixed + r.fixed_count,
                         total_datasets |-> counts.total_datasets + 1]
           /\ trace' = Append(trace, r.fixed_count)
    /\ idx' = idx + 1
    /\ UNCHANGED <<prog, pc, args, dirs, fs0, files, report, ret, exit_status>>

\* main after the loop: return 0.
FixMainReturn ==
    /\ prog = "fix_events_duration" /\ pc = "loop" /\ idx = NumDatasets
    /\ pc' = "returned"
    /\ ret' = "0"
    /\ UNCHANGED <<prog, args, dirs, fs, fs0, files, idx, report, counts,
                   exit_status, trace>>

NextFixMain == FixMainStart \/ FixMainDataset \/ FixMainReturn \/ ProcessExit

SpecFixMain == InitFixMain /\ [][NextFixMain]_vars

--------------------------------------------------------------------------
(* format_conversion/convert_set_to_bdf.py and convert_set_to_edf.py       *)

MaxSetFiles == 2

Slash == <<"/">>
DotSet == <<".", "s", "e", "t">>
DotBdf == <<".", "b", "d", "f">>
DotEdf == <<".", "e", "d", "f">>

\* os.path.join(a, b) for a relative b
Join(a, b) == a \o Slash \o b

LastSlash(p) == IF \E k \in 1..Len(p) : p[k] = "/"
                THEN CHOOSE k \in 1..Len(p) :
                        p[k] = "/" /\ \A m \in (k + 1)..Len(p) : p[m] # "/"
                ELSE 0

\* os.path.basename, os.path.dirname
Basename(p) == SubSeq(p, LastSlash(p) + 1, Len(p))
Dirname(p) == SubSeq(p, 1, LastSlash(p) - 1)

\* os.path.relpath(path, start) for a path below start
Relpath(path, start) == SubSeq(path, Len(start) + 2, Len(path))

\* glob.glob(os.path.join(dataset_path, "**", "*" + suffix), recursive=True):
\* the files below dataset_path whose name ends with suffix and does not start
\* with a dot. The order of the result is the file system's.
GlobSuffix(fsys, dataset_path, suffix) ==
    {p \in DOMAIN fsys :
        /\ StartsWith(p, dataset_path \o Slash)
        /\ EndsWith(Basename(p), suffix)
        /\ Head(Basename(p)) # "."}

\* find_set_files without its sorted(): the paths in the order glob returns
\* them, which is the file system's (here the reverse of the sorted order).
FindSetFilesUnsorted(fsys, dataset_path) ==
    LET S == GlobSuffix(fsys, dataset_path, DotSet)
    IN  [k \in 1..Cardinality(S) |-> Sorted(S)[Cardinality(S) + 1 - k]]

\* find_set_files
FindSetFiles(fsys, dataset_path) == Sorted(GlobSuffix(fsys, dataset_path, DotSet))

\* The extension the script exports to, and where below the output root.
TargetExt(script) == IF script = "convert_set_to_bdf" THEN DotBdf ELSE DotEdf

OutputRoot(script, output_dir) ==
    IF script = "convert_set_to_bdf" THEN output_dir
    ELSE Join(output_dir, <<"e", "d", "f", "_", "c", "o", "n", "v", "e", "r", "t", "e", "d">>)

\* create_output_path, before its last line: the path with the new extension,
\* whose directory os.makedirs creates.
OutputPathWithExt(script, set_file_path, dataset_path, output_dir) ==
    Join(OutputRoot(script, output_dir),
         Replace(Relpath(set_file_path, dataset_path), DotSet, TargetExt(script)))

\* create_output_path: what it returns.
CreateOutputPath(script, set_file_path, dataset_path, output_dir) ==
    Replace(OutputPathWithExt(script, set_file_path, dataset_path, output_dir),
            TargetExt(script), <<>>)

\* The signal file emg.to_edf(output_path, format=...) writes from a loaded SET file.
Exported(script, content) ==
    [format |-> IF script = "convert_set_to_bdf" THEN "bdf" ELSE "edf",
     loadable |-> TRUE, channels |-> content.channels, data |-> content.data]

\* convert_set_to_bdf / convert_set_to_edf: the entry returned and the files
\* afterwards. EMG.from_file raises on a file it cannot load; export_ok says
\* whether emg.to_edf raises.
ConvertSetFile(script, fsys, set_file_path, output_path, export_ok) ==
    LET out == output_path \o TargetExt(script)
    IN  IF fsys[set_file_path].loadable /\ export_ok
        THEN [fs |-> (out :> Exported(script, fsys[set_file_path])) @@ fsys,
              result |-> [input_file |-> set_file_path, output_file |-> out,
                          n_channels |-> Len(fsys[set_file_path].channels),
                          conversion_status |-> "success", timestamp |-> "now"]]
        ELSE [fs |-> fsys,
              result |-> [input_file |-> set_file_path, output_file |-> out,
                          conversion_status |-> "error",
                          error_message |-> "str(e)",
                          error_traceback |-> "traceback.format_exc()",
                          timestamp |-> "now"]]

\* The entry main's own except block appends.
UnexpectedErrorEntry(set_file) ==
    [input_file |-> set_file, conversion_status |-> "error",
     error_message |-> "Unexpected error: str(e)", timestamp |-> "now"]

InputDir == <<"/", "i", "n">>
OutputDirs == {<<"/", "o">>, <<"/", "o", ".", "b", "d", "f">>}
ReportsDirName == <<"c", "o", "n", "v", "e", "r", "s", "i", "o", "n", "_",
                    "r", "e", "p", "o", "r", "t", "s">>
ReportName == <<"r", "e", "p", "o", "r", "t", ".", "j", "s", "o", "n">>

\* The SET files a dataset may hold, relative to its root.
SetRelPaths == {Decimal(k) \o DotSet : k \in 1..MaxSetFiles}
               \cup {<<"1">> \o DotBdf \o DotSet, <<"1">> \o DotEdf \o DotSet}

ConvScripts == {"convert_set_to_bdf", "convert_set_to_edf"}

InitConv ==
    /\ prog \in ConvScripts
    /\ pc = "start"
    /\ \E o \in OutputDirs : args = [input_dir |-> InputDir, output_dir |-> o]
    /\ dirs \in {{}, {InputDir}}
    /\ \E present \in SUBSET SetRelPaths :
         /\ (dirs = {} => present = {})
         /\ \E c \in [present -> BOOLEAN] :
              fs = [p \in {Join(InputDir, rel) : rel \in present} |->
                      [format |-> "set", loadable |-> c[Relpath(p, InputDir)],
                       channels |-> <<"E1", "Cz">>, data |-> Relpath(p, InputDir)]]
    /\ fs0 = fs
    /\ files = <<>>
    /\ idx = 0
    /\ report = Unused
    /\ counts = [successful_conversions |-> 0, failed_conversions |-> 0]
    /\ ret = "-"
    /\ exit_status = -1
    /\ trace = <<>>

\* main up to the loop: the check of the input directory, the scan, the
\* directories made and the report initialised.
ConvMainStart ==
    /\ prog \in ConvScripts /\ pc = "start"
    /\ LET set_files == FindSetFiles(fs, args.input_dir)
           made == (IF prog = "convert_set_to_bdf" THEN {args.output_dir} ELSE {})
       IN  IF args.input_dir \notin dirs
           THEN /\ pc' = "returned" /\ ret' = "1"
                /\ UNCHANGED <<dirs, files, report>>
           ELSE IF Len(set_files) = 0
           THEN /\ pc' = "returned" /\ ret' = "1"
                /\ dirs' = dirs \cup made
                /\ files' = set_files
                /\ UNCHANGED report
           ELSE /\ pc' = "loop" /\ ret' = ret
                /\ dirs' = dirs \cup made \cup {Join(args.output_dir, ReportsDirName)}
                /\ files' = set_files
                /\ report' = [conversion_type |-> prog,
                              total_files |-> Len(set_files),
                              conversions |-> <<>>]
    /\ UNCHANGED <<prog, args, fs, fs0, idx, counts, exit_status, trace>>

\* One iteration of `for i, set_file in enumerate(set_files, 1)`, its try and
\* its except. makedirs_ok says whether os.makedirs in create_output_path
\* raises, export_ok whether emg.to_edf does.
ConvMainFile ==
    /\ prog \in ConvScripts /\ pc = "loop" /\ idx < Len(files)
    /\ \E makedirs_ok \in BOOLEAN, export_ok \in BOOLEAN :
         LET set_file == files[idx + 1]
             with_ext == OutputPathWithExt(prog, set_file, args.input_dir, args.output_dir)
             output_path == CreateOutputPath(prog, set_file, args.input_dir, args.output_dir)
             r == ConvertSetFile(prog, fs, set_file, output_path, export_ok)
         IN  IF makedirs_ok
             THEN /\ dirs' = dirs \cup {Dirname(with_ext)}
                  /\ fs' = r.fs
                  /\ report' = [report EXCEPT !.conversions = Append(@, r.result)]
                  /\ counts' = IF r.result.conversion_status = "success"
                               THEN [counts EXCEPT !.successful_conversions = @ + 1]
                               ELSE [counts EXCEPT !.failed_conversions = @ + 1]
             ELSE /\ UNCHANGED <<dirs, fs>>
                  /\ report' = [report EXCEPT
                                  !.conversions = Append(@, UnexpectedErrorEntry(set_file))]
                  /\ counts' = [counts EXCEPT !.failed_conversions = @ + 1]
    /\ trace' = Append(trace, files[idx + 1])
    /\ idx' = idx + 1
    /\ UNCHANGED <<prog, pc, args, fs0, files, ret, exit_status>>

ReportPath(output_dir) == Join(Join(output_dir, ReportsDirName), ReportName)

\* main after the loop: the report finalised and saved, the value returned.
ConvMainFinish ==
    /\ prog \in ConvScripts /\ pc = "loop" /\ idx = Len(files)
    /\ LET final == [successful_conversions |-> counts.successful_conversions,
                     failed_conversions |-> counts.failed_conversions] @@ report
       IN  /\ report' = final
           /\ fs' = (ReportPath(args.output_dir) :> final) @@ fs
    /\ ret' = IF counts.failed_conversions = 0 THEN "0" ELSE "1"
    /\ pc' = "returned"
    /\ UNCHANGED <<prog, args, dirs, fs0, files, idx, counts, exit_status, trace>>

NextConv == ConvMainStart \/ ConvMainFile \/ ConvMainFinish \/ ProcessExit

SpecConv == InitConv /\ [][NextConv]_vars

--------------------------------------------------------------------------
(* format_conversion/process_bdf_remove_cz.py                              *)

ExpectedChannels == 129
MaxBdfFiles == 1

CzName == <<"C", "z">>
EegBdf == <<"_", "e", "e", "g", ".", "b", "d", "f">>
ChannelsTsv == <<"_", "c", "h", "a", "n", "n", "e", "l", "s", ".", "t", "s", "v">>
DotBackup == <<".", "b", "a", "c", "k", "u", "p">>

\* find_bdf_files
FindBdfFiles(fsys, dataset_path) == Sorted(GlobSuffix(fsys, dataset_path, EegBdf))

\* The file emg.to_edf(output_path, format='bdf') writes for bdf_path.
BdfExportPath(bdf_path) == Replace(bdf_path, DotBdf, <<>>) \o DotBdf

\* DataFrame.iloc[:, :-1] on the signals: all channels but the last.
DropLast(channels) == SubSeq(channels, 1, Len(channels) - 1)

\* shutil.copy2(path, path + '.backup') unless the backup exists.
BackupIfMissing(fsys, path) ==
    IF (path \o DotBackup) \in DOMAIN fsys THEN fsys
    ELSE ((path \o DotBackup) :> fsys[path]) @@ fsys

BackupOps(fsys, path) ==
    IF (path \o DotBackup) \in DOMAIN fsys THEN <<>>
    ELSE <<[op |-> "copy2", path |-> path \o DotBackup]>>

\* process_bdf_file: the files afterwards, the result returned and the file
\* operations done, in order. EMG.from_file raises on a file it cannot load;
\* export_ok says whether emg.to_edf raises.
ProcessBdfFile(fsys, bdf_path, backup, export_ok) ==
    LET emg == fsys[bdf_path]
        n_channels == Len(emg.channels)
        channel_names == emg.channels
        kept == DropLast(emg.channels)
        backed == IF backup THEN BackupIfMissing(fsys, bdf_path) ELSE fsys
        backup_ops == IF backup THEN BackupOps(fsys, bdf_path) ELSE <<>>
        out == BdfExportPath(bdf_path)
        error == [file |-> bdf_path, status |-> "error", error |-> "str(e)",
                  traceback |-> "traceback.format_exc()", timestamp |-> "now"]
    IN  IF ~emg.loadable
        THEN [fs |-> fsys, result |-> error, ops |-> <<>>]
        ELSE IF n_channels # ExpectedChannels
        THEN [fs |-> fsys, ops |-> <<>>,
              result |-> [file |-> bdf_path, status |-> "skipped",
                          message |-> "File has n channels, expected 129",
                          timestamp |-> "now"]]
        ELSE IF ~export_ok
        THEN [fs |-> backed, result |-> error, ops |-> backup_ops]
        ELSE [fs |-> (out :> [emg EXCEPT !.channels = kept]) @@ backed,
              ops |-> backup_ops \o <<[op |-> "to_edf", path |-> out]>>,
              result |-> [file |-> bdf_path, status |-> "success",
                          original_channels |-> n_channels,
                          final_channels |-> Len(kept),
                          removed_channel |-> channel_names[Len(channel_names)],
                          timestamp |-> "now"]]

\* The rows of a DataFrame column by column, keeping the rows in `keep`.
KeepRows(df, keep) ==
    [header |-> df.header,
     cols |-> [j \in 1..Len(df.header) |->
                 SelectSeq([k \in 1..Len(df.cols[j]) |-> <<k, df.cols[j][k]>>],
                           LAMBDA c : c[1] \in keep)]]

Second(col) == [k \in 1..Len(col) |-> col[k][2]]

\* df[name] = value: the column set to value in every row, added last if new.
SetColumn(df, name, value) ==
    LET n == IF df.header = <<>> THEN 0 ELSE Len(df.cols[1])
        filled == [k \in 1..n |-> value]
    IN  IF HasCol(df, name)
        THEN [df EXCEPT !.cols[ColIndex(df, name)] = filled]
        ELSE [header |-> Append(df.header, name), cols |-> Append(df.cols, filled)]

\* update_channels_tsv: the files afterwards, the result returned and the file
\* operations done. channels_df['name'] raises KeyError without a name column.
UpdateChannelsTsv(fsys, channels_tsv_path) ==
    LET table == fsys[channels_tsv_path]
        channels_df == ReadCsv(table, DefaultNaValues)
        names == channels_df.cols[ColIndex(channels_df, "name")]
        original_count == Len(names)
        keep == {k \in 1..Len(names) : names[k] # CzName}
        kept == KeepRows(channels_df, keep)
        dropped == [header |-> kept.header,
                    cols |-> [j \in 1..Len(kept.header) |-> Second(kept.cols[j])]]
        referenced == SetColumn(dropped, "reference", CzName)
        typed == IF HasCol(referenced, "type")
                 THEN SetColumn(referenced, "type", <<"E", "E", "G">>)
                 ELSE referenced
        backed == BackupIfMissing(fsys, channels_tsv_path)
    IN  IF ~Readable(table) \/ ~HasCol(table, "name")
        THEN [fs |-> fsys, ops |-> <<>>,
              result |-> [file |-> channels_tsv_path, status |-> "error",
                          error |-> "str(e)", traceback |-> "traceback.format_exc()",
                          timestamp |-> "now"]]
        ELSE IF \A k \in 1..Len(names) : names[k] # CzName
        THEN [fs |-> fsys, ops |-> <<>>,
              result |-> [file |-> channels_tsv_path, status |-> "skipped",
                          message |-> "Cz channel not found in channels.tsv",
                          timestamp |-> "now"]]
        ELSE [fs |-> [backed EXCEPT ![channels_tsv_path] = ToCsv(typed, NAText)],
              ops |-> BackupOps(fsys, channels_tsv_path)
                      \o <<[op |-> "to_csv", path |-> channels_tsv_path]>>,
              result |-> [file |-> channels_tsv_path, status |-> "success",
                          original_channels |-> original_count,
                          final_channels |-> Cardinality(keep),
                          timestamp |-> "now"]]

\* The channels.tsv main looks for beside bdf_path.
SidecarPath(bdf_path) ==
    Join(Dirname(bdf_path), Replace(Basename(bdf_path), EegBdf, <<>>) \o ChannelsTsv)

\* The loop of main without its `if args.dry_run: continue`.
DryRunIgnored(a) == FALSE

\* `if args.dry_run: continue` in the loop of main.
DryRunSkips(a) == a.dry_run

\* backup=not args.no_backup
BackupWanted(a) == ~a.no_backup

\* main that saves its report in dry-run too.
SavesReportAlways(a) == TRUE

\* `if not args.dry_run:` before the report is saved.
SavesReport(a) == ~a.dry_run

\* Counters that count a result as failed only if its status is 'error'.
CountBdfErrorsOnly(c, status) ==
    IF status = "success" THEN [c EXCEPT !.successful_bdf = @ + 1]
    ELSE IF status = "error" THEN [c EXCEPT !.failed_bdf = @ + 1]
    ELSE c

\* `if result['status'] == 'success': successful_bdf += 1 ... else: failed_bdf += 1`
CountBdf(c, status) ==
    IF status = "success" THEN [c EXCEPT !.successful_bdf = @ + 1]
    ELSE [c EXCEPT !.failed_bdf = @ + 1]

--------------------------------------------------------------------------
(* SpecCz: process_bdf_remove_cz.py run as a program                       *)

DatasetDir == <<"/", "d">>

CzReportName == <<"c", "z", "_", "r", "e", "m", "o", "v", "a", "l", "_",
                  "r", "e", "p", "o", "r", "t", ".", "j", "s", "o", "n">>

\* The BDF files a dataset may hold, relative to its root.
BdfRelNames == {Decimal(k) \o EegBdf : k \in 1..MaxBdfFiles}
               \cup {<<"1">> \o DotBdf \o EegBdf}

EName(k) == <<"E">> \o Decimal(k)

\* The channels of a BDF file: the converted file (E1..E128 then Cz), one
\* whose last channel is not Cz, one already without Cz.
BdfChannels(variant) ==
    CASE variant = "cz_last" ->
            [k \in 1..ExpectedChannels |->
                IF k = ExpectedChannels THEN CzName ELSE EName(k)]
      [] variant = "cz_first" ->
            [k \in 1..ExpectedChannels |-> IF k = 1 THEN CzName ELSE EName(k - 1)]
      [] OTHER -> [k \in 1..(ExpectedChannels - 1) |-> EName(k)]

BdfContent(variant, rel) ==
    [format |-> "bdf", loadable |-> variant # "corrupt",
     channels |-> BdfChannels(variant), data |-> rel]

EegText == <<"E", "E", "G">>

\* The channels.tsv beside a BDF file: with one Cz row, without a Cz row, with
\* two Cz rows, without a name column.
TsvContent(variant) ==
    CASE variant = "one_cz" ->
            [header |-> <<"name", "type">>,
             cols |-> <<<<EName(1), CzName>>, <<EegText, EegText>>>>]
      [] variant = "no_cz" ->
            [header |-> <<"name", "type">>,
             cols |-> <<<<EName(1), EName(2)>>, <<EegText, EegText>>>>]
      [] variant = "two_cz" ->
            [header |-> <<"name", "type">>,
             cols |-> <<<<EName(1), CzName, CzName>>, <<EegText, EegText, EegText>>>>]
      [] OTHER ->
            [header |-> <<"type", "units">>,
             cols |-> <<<<EegText, EegText>>, <<<<"u", "V">>, <<"u", "V">>>>>>]

\* A file that is not the converted one comes with the converted sidecar.
CzFileVariants ==
    {[bdf |-> "absent", tsv |-> "absent"]}
    \cup {[bdf |-> "cz_last", tsv |-> t] :
            t \in {"absent", "one_cz", "no_cz", "two_cz", "no_name"}}
    \cup {[bdf |-> b, tsv |-> "one_cz"] : b \in {"cz_first", "no_cz", "corrupt"}}

\* The files of a dataset whose BDF file rel is of variant v[rel].
CzFiles(v) ==
    LET bdfs == {rel \in BdfRelNames : v[rel].bdf # "absent"}
        tsvs == {rel \in bdfs : v[rel].tsv # "absent"}
        sidecar(rel) == SidecarPath(Join(DatasetDir, rel))
    IN  [p \in {Join(DatasetDir, rel) : rel \in bdfs} \cup {sidecar(rel) : rel \in tsvs} |->
            IF \E rel \in bdfs : p = Join(DatasetDir, rel)
            THEN BdfContent(v[Relpath(p, DatasetDir)].bdf, Relpath(p, DatasetDir))
            ELSE TsvContent(v[CHOOSE rel \in tsvs : sidecar(rel) = p].tsv)]

InitCz ==
    /\ prog = "process_bdf_remove_cz"
    /\ pc = "start"
    /\ \E nb \in BOOLEAN, dr \in BOOLEAN :
         args = [dataset_path |-> DatasetDir, no_backup |-> nb, dry_run |-> dr]
    /\ dirs \in {{}, {DatasetDir}}
    /\ \E v \in [BdfRelNames -> CzFileVariants] :
         /\ (dirs = {} => \A rel \in BdfRelNames : v[rel].bdf = "absent")
         /\ fs = CzFiles(v)
    /\ fs0 = fs
    /\ files = <<>>
    /\ idx = 0
    /\ report = Unused
    /\ counts = [successful_bdf |-> 0, failed_bdf |-> 0]
    /\ ret = "-"
    /\ exit_status = -1
    /\ trace = <<>>

\* main up to the loop: the check of the dataset path, the scan, the report
\* initialised.
CzMainStart ==
    /\ prog = "process_bdf_remove_cz" /\ pc = "start"
    /\ LET bdf_files == FindBdfFiles(fs, args.dataset_path)
       IN  IF args.dataset_path \notin dirs
           THEN pc' = "returned" /\ ret' = "1" /\ UNCHANGED <<files, report>>
           ELSE IF Len(bdf_files) = 0
           THEN pc' = "returned" /\ ret' = "1" /\ files' = bdf_files /\ UNCHANGED report
           ELSE /\ pc' = "loop" /\ ret' = ret
                /\ files' = bdf_files
                /\ report' = [dataset_path |-> args.dataset_path,
                              dry_run |-> args.dry_run,
                              bdf_processing |-> <<>>,
                              channels_tsv_updates |-> <<>>]
    /\ UNCHANGED <<prog, args, dirs, fs, fs0, idx, counts, exit_status, trace>>

\* One iteration of `for i, bdf_path in enumerate(bdf_files, 1)`:
\* process_bdf_file and, after a success, update_channels_tsv on the sidecar
\* that exists. export_ok says whether emg.to_edf raises.
CzMainFile ==
    /\ prog = "process_bdf_remove_cz" /\ pc = "loop" /\ idx < Len(files)
    /\ IF DryRunSkips(args)
       THEN UNCHANGED <<fs, report, counts, trace>>
       ELSE \E export_ok \in BOOLEAN :
              LET bdf_path == files[idx + 1]
                  r == ProcessBdfFile(fs, bdf_path, BackupWanted(args), export_ok)
                  channels_tsv_path == SidecarPath(bdf_path)
                  found == r.result.status = "success"
                           /\ channels_tsv_path \in DOMAIN r.fs
                  t == UpdateChannelsTsv(r.fs, channels_tsv_path)
              IN  /\ fs' = IF found THEN t.fs ELSE r.fs
                  /\ report' = [report EXCEPT
                        !.bdf_processing = Append(@, r.result),
                        !.channels_tsv_updates =
                            IF found THEN Append(@, t.result) ELSE @]
                  /\ counts' = CountBdf(counts, r.result.status)
                  /\ trace' = trace \o <<[op |-> "process_bdf_file", path |-> bdf_path]>>
                                    \o r.ops
                                    \o (IF found
                                        THEN <<[op |-> "update_channels_tsv",
                                                path |-> channels_tsv_path]>> \o t.ops
                                        ELSE <<>>)
    /\ idx' = idx + 1
    /\ UNCHANGED <<prog, pc, args, dirs, fs0, files, ret, exit_status>>

CzReportPath(dataset_path) == Join(dataset_path, CzReportName)

\* main after the loop: the report finalised, saved unless in dry-run, the
\* value returned.
CzMainFinish ==
    /\ prog = "process_bdf_remove_cz" /\ pc = "loop" /\ idx = Len(files)
    /\ LET final == [bdf_files_processed |-> Len(files),
                     bdf_successful |-> counts.successful_bdf,
                     bdf_failed |-> counts.failed_bdf] @@ report
       IN  /\ report' = final
           /\ fs' = IF SavesReport(args)
                    THEN (CzReportPath(args.dataset_path) :> final) @@ fs
                    ELSE fs
           /\ trace' = IF SavesReport(args)
                       THEN Append(trace, [op |-> "json.dump",
                                           path |-> CzReportPath(args.dataset_path)])
                       ELSE trace
    /\ ret' = IF counts.failed_bdf = 0 THEN "0" ELSE "1"
    /\ pc' = "returned"
    /\ UNCHANGED <<prog, args, dirs, fs0, files, idx, counts, exit_status>>

NextCz == CzMainStart \/ CzMainFile \/ CzMainFinish \/ ProcessExit

SpecCz == InitCz /\ [][NextCz]_vars

--------------------------------------------------------------------------
(* SpecReports: any of the three scripts that write a JSON report          *)

InitReports == InitConv \/ InitCz

NextReports == \/ ConvMainStart \/ ConvMainFile \/ ConvMainFinish
               \/ CzMainStart \/ CzMainFile \/ CzMainFinish
               \/ ProcessExit

SpecReports == InitReports /\ [][NextReports]_vars

--------------------------------------------------------------------------
(* process_metadata.py                                                     *)

EegJson == <<"_", "e", "e", "g", ".", "j", "s", "o", "n">>
DotFdt == <<".", "f", "d", "t">>

LastDot(name) == IF \E k \in 1..Len(name) : name[k] = "."
                 THEN CHOOSE k \in 1..Len(name) :
                         name[k] = "." /\ \A m \in (k + 1)..Len(name) : name[m] # "."
                 ELSE 0

\* Path.suffix: the file name from its last dot on, '' if that dot is the
\* first or the last character of the name or there is none.
Suffix(p) ==
    LET name == Basename(p)
        i == LastDot(name)
    IN  IF i > 1 /\ i < Len(name) THEN SubSeq(name, i, Len(name)) ELSE <<>>

\* list(Path(input_dir).rglob("*" + suffix)): the files below input_dir whose
\* name ends with suffix.
Rglob(fsys, input_dir, suffix) ==
    {p \in DOMAIN fsys : StartsWith(p, input_dir \o Slash) /\ EndsWith(Basename(p), suffix)}

\* Path(output_dir) / file.relative_to(input_dir)
OutputFile(p, input_dir, output_dir) == Join(output_dir, Relpath(p, input_dir))

\* The text of a JSON file: an object with its members, another JSON value
\* (an array), or a text json.load rejects.
JsonObject(members) == [json |-> "object", members |-> members]

\* update_json_files that leaves a SamplingFrequency it finds as it is.
UpdateJsonOnlyMissing(content) ==
    IF content.json = "object"
    THEN [ok |-> TRUE,
          out |-> [json |-> "object",
                   members |-> content.members @@ ("SamplingFrequency" :> 100)]]
    ELSE [ok |-> FALSE, out |-> content]

\* update_json_files on one file's content: json.load, the assignment
\* data['SamplingFrequency'] = 100 (a TypeError on an array) and what json.dump
\* writes.
UpdateJson(content) ==
    IF content.json = "object"
    THEN [ok |-> TRUE,
          out |-> JsonObject(("SamplingFrequency" :> 100) @@ content.members)]
    ELSE [ok |-> FALSE, out |-> content]

\* update_json_files: the files afterwards. A file that raises is reported
\* and left out.
UpdateJsonFiles(fsys, input_dir, output_dir) ==
    LET json_files == Rglob(fsys, input_dir, EegJson)
        done == {p \in json_files : UpdateJson(fsys[p]).ok}
        written == {OutputFile(p, input_dir, output_dir) : p \in done}
        source(q) == CHOOSE p \in done : OutputFile(p, input_dir, output_dir) = q
    IN  [q \in DOMAIN fsys \cup written |->
            IF q \in written THEN UpdateJson(fsys[source(q)]).out ELSE fsys[q]]

\* process_events_files without its df.drop.
DropNothing(df, name) == df

\* df.drop(name, axis=1)
DropColumn(df, name) ==
    LET keep == SelectSeq([j \in 1..Len(df.header) |-> j],
                          LAMBDA j : df.header[j] # name)
    IN  [header |-> [i \in 1..Len(keep) |-> df.header[keep[i]]],
         cols |-> [i \in 1..Len(keep) |-> df.cols[keep[i]]]]

\* process_events_files on one file's content: read with only '' as a missing
\* value, 'sample' dropped, the other columns but 'onset' filled with 'n/a',
\* written with na_rep='n/a'.
ProcessEvents(table) ==
    IF ~Readable(table) THEN [ok |-> FALSE, out |-> table]
    ELSE LET df == ReadCsv(table, {EmptyText})
             dropped == IF HasCol(df, "sample") THEN DropColumn(df, "sample") ELSE df
             filled == [header |-> dropped.header,
                        cols |-> [j \in 1..Len(dropped.header) |->
                                    IF dropped.header[j] # "onset"
                                    THEN FillEmpty(dropped.cols[j], NAText)
                                    ELSE dropped.cols[j]]]
         IN  [ok |-> TRUE, out |-> ToCsv(filled, NAText)]

\* process_events_files: the files afterwards.
ProcessEventsFiles(fsys, input_dir, output_dir) ==
    LET events_files == Rglob(fsys, input_dir, EventsSuffix)
        done == {p \in events_files : ProcessEvents(fsys[p]).ok}
        written == {OutputFile(p, input_dir, output_dir) : p \in done}
        source(q) == CHOOSE p \in done : OutputFile(p, input_dir, output_dir) = q
    IN  [q \in DOMAIN fsys \cup written |->
            IF q \in written THEN ProcessEvents(fsys[source(q)]).out ELSE fsys[q]]

SkipExtensions == {DotSet, DotFdt}
SkipPatterns == {EegJson, EventsSuffix}

\* copy_other_files skips this file.
SkipFile(p) ==
    \/ Suffix(p) \in SkipExtensions
    \/ \E pattern \in SkipPatterns : Contains(Basename(p), pattern)

\* copy_other_files: the files afterwards. shutil.copy2 of a file onto itself
\* raises SameFileError, which is reported.
CopyOtherFiles(fsys, input_dir, output_dir) ==
    LET walked == {p \in DOMAIN fsys : StartsWith(p, input_dir \o Slash)}
        copied == {p \in walked : ~SkipFile(p) /\ OutputFile(p, input_dir, output_dir) # p}
        written == {OutputFile(p, input_dir, output_dir) : p \in copied}
        source(q) == CHOOSE p \in copied : OutputFile(p, input_dir, output_dir) = q
    IN  [q \in DOMAIN fsys \cup written |->
            IF q \in written THEN fsys[source(q)] ELSE fsys[q]]

\* The directories output_file.parent.mkdir(parents=True) makes for files.
OutputParents(paths, input_dir, output_dir) ==
    {Dirname(OutputFile(p, input_dir, output_dir)) : p \in paths}

--------------------------------------------------------------------------
(* SpecPM: process_metadata.py run as a program                            *)

SubDir == <<"s">>
JsonRel == Join(SubDir, <<"a">> \o EegJson)
EventsRel == Join(SubDir, EventsFilePath)
ReadmeRel == <<"R", "E", "A", "D", "M", "E">>

\* The other files an input tree may hold: a README, the signal files, a copy
\* of an events table kept under another name.
OtherRels == {ReadmeRel,
              Join(SubDir, <<"a">> \o DotSet),
              Join(SubDir, <<"a">> \o DotFdt),
              Join(SubDir, EventsFilePath \o <<".", "b", "a", "k">>)}

OtherContent(rel) == [bytes |-> rel]

\* The JSON sidecars of the model: objects with or without SamplingFrequency
\* and with or without another member, an array, a text that is not JSON.
JsonContents ==
    {JsonObject(m) : m \in {<< >>,
                            "SamplingFrequency" :> 500,
                            "SamplingFrequency" :> 100,
                            "TaskName" :> "rest",
                            ("SamplingFrequency" :> 500) @@ ("TaskName" :> "rest")}}
    \cup {[json |-> "array", members |-> << >>], [json |-> "invalid", members |-> << >>]}

PMColNames == {"onset", "sample", "duration"}
PMHeaders == {h \in PMColNames \X PMColNames : h[1] # h[2]}

PMTablesOfRows(n) ==
    {[header |-> h, cols |-> <<c1, c2>>] :
        h \in PMHeaders,
        c1 \in [1..n -> CellTexts], c2 \in [1..n -> CellTexts]}

PMTables == UNION {PMTablesOfRows(n) : n \in 1..MaxRows}

\* output_dir: another tree, or the input tree itself.
PMOutputDirs == {<<"/", "o">>, InputDir}

OtherFiles(rels) == [p \in {Join(InputDir, rel) : rel \in rels} |->
                        OtherContent(Relpath(p, InputDir))]

InitPM ==
    /\ prog = "process_metadata"
    /\ pc = "start"
    /\ \E o \in PMOutputDirs : args = [input_dir |-> InputDir, output_dir |-> o]
    /\ dirs \in {{}, {InputDir, Join(InputDir, SubDir)}}
    /\ \/ fs = << >>
       \/ /\ dirs # {}
          /\ \E t \in PMTables \cup {EmptyFile} :
                fs = (Join(InputDir, EventsRel) :> t) @@ OtherFiles(OtherRels)
       \/ /\ dirs # {}
          /\ \E j \in JsonContents, rels \in SUBSET OtherRels :
                fs = (Join(InputDir, JsonRel) :> j) @@ OtherFiles(rels)
    /\ fs0 = fs
    /\ files = <<>>
    /\ idx = 0
    /\ report = Unused
    /\ counts = Unused
    /\ ret = "-"
    /\ exit_status = -1
    /\ trace = <<>>

\* main up to the first function: the check of the input directory and the
\* output directory made.
PMMainStart ==
    /\ prog = "process_metadata" /\ pc = "start"
    /\ IF args.input_dir \notin dirs
       THEN pc' = "returned" /\ ret' = "1" /\ UNCHANGED dirs
       ELSE pc' = "json" /\ ret' = ret /\ dirs' = dirs \cup {args.output_dir}
    /\ UNCHANGED <<prog, args, fs, fs0, files, idx, report, counts, exit_status, trace>>

\* update_json_files(input_dir, output_dir)
PMUpdateJsonFiles ==
    /\ prog = "process_metadata" /\ pc = "json"
    /\ fs' = UpdateJsonFiles(fs, args.input_dir, args.output_dir)
    /\ dirs' = dirs \cup OutputParents(Rglob(fs, args.input_dir, EegJson),
                                       args.input_dir, args.output_dir)
    /\ trace' = Append(trace, "update_json_files")
    /\ pc' = "events"
    /\ UNCHANGED <<prog, args, fs0, files, idx, report, counts, ret, exit_status>>

\* process_events_files(input_dir, output_dir)
PMProcessEventsFiles ==
    /\ prog = "process_metadata" /\ pc = "events"
    /\ fs' = ProcessEventsFiles(fs, args.input_dir, args.output_dir)
    /\ dirs' = dirs \cup OutputParents(Rglob(fs, args.input_dir, EventsSuffix),
                                       args.input_dir, args.output_dir)
    /\ trace' = Append(trace, "process_events_files")
    /\ pc' = "copy"
    /\ UNCHANGED <<prog, args, fs0, files, idx, report, counts, ret, exit_status>>

\* copy_other_files(input_dir, output_dir) and the end of main, which returns
\* nothing.
PMCopyOtherFiles ==
    /\ prog = "process_metadata" /\ pc = "copy"
    /\ fs' = CopyOtherFiles(fs, args.input_dir, args.output_dir)
    /\ dirs' = dirs \cup OutputParents({p \in DOMAIN fs :
                                           /\ StartsWith(p, args.input_dir \o Slash)
                                           /\ ~SkipFile(p)},
                                       args.input_dir, args.output_dir)
    /\ trace' = Append(trace, "copy_other_files")
    /\ pc' = "returned"
    /\ ret' = "None"
    /\ UNCHANGED <<prog, args, fs0, files, idx, report, counts, exit_status>>

NextPM == PMMainStart \/ PMUpdateJsonFiles \/ PMProcessEventsFiles
          \/ PMCopyOtherFiles \/ ProcessExit

SpecPM == InitPM /\ [][NextPM]_vars

--------------------------------------------------------------------------
(* complete_bids_datasets.py                                               *)

\* The directories os.makedirs(os.path.dirname(p), exist_ok=True) ensures.
Ancestors(p) == {SubSeq(p, 1, k - 1) : k \in {m \in 2..Len(p) : p[m] = "/"}}

DescriptionName == <<"d", "a", "t", "a", "s", "e", "t", "_", "d", "e", "s", "c", "r",
                     "i", "p", "t", "i", "o", "n", ".", "j", "s", "o", "n">>
ParticipantsTsv == <<"p", "a", "r", "t", "i", "c", "i", "p", "a", "n", "t", "s",
                     ".", "t", "s", "v">>
ParticipantsJson == <<"p", "a", "r", "t", "i", "c", "i", "p", "a", "n", "t", "s",
                      ".", "j", "s", "o", "n">>

\* root_files
RootFiles == {DescriptionName, ParticipantsJson, ParticipantsTsv, ReadmeRel}

TaskPrefix == <<"t", "a", "s", "k", "-">>
EventsJson == <<"_", "e", "v", "e", "n", "t", "s", ".", "j", "s", "o", "n">>
UnderscoreEventsTsv == <<"_">> \o EventsSuffix
SubPrefix == <<"s", "u", "b", "-">>
CodeDir == <<"c", "o", "d", "e">>
DerivativesDir == <<"d", "e", "r", "i", "v", "a", "t", "i", "v", "e", "s">>
EegDir == <<"e", "e", "g">>

\* glob.glob(os.path.join(directory, prefix + '*' + suffix)): the files of the
\* directory itself with such a name (prefix not empty, or no leading dot).
GlobIn(fsys, directory, prefix, suffix) ==
    {p \in DOMAIN fsys :
        /\ Dirname(p) = directory
        /\ Len(Basename(p)) >= Len(prefix) + Len(suffix)
        /\ StartsWith(Basename(p), prefix)
        /\ EndsWith(Basename(p), suffix)
        /\ Head(Basename(p)) # "."}

\* copy_file_with_structure(src, dst[src]) for every src in the domain of dst:
\* the directories made and every destination written, an existing one
\* overwritten.
CopyFiles(st, dst) ==
    LET written == {dst[p] : p \in DOMAIN dst}
        source(q) == CHOOSE p \in DOMAIN dst : dst[p] = q
    IN  [fs |-> [q \in DOMAIN st.fs \cup written |->
                    IF q \in written THEN st.fs[source(q)] ELSE st.fs[q]],
         dirs |-> st.dirs \cup UNION {Ancestors(q) : q \in written}]

\* shutil.copytree(src_dir, dst_dir, dirs_exist_ok=True) if src_dir exists.
CopyTree(st, src_dir, dst_dir) ==
    IF src_dir \notin st.dirs THEN st
    ELSE LET below == {p \in DOMAIN st.fs : StartsWith(p, src_dir \o Slash)}
             copied == CopyFiles(st, [p \in below |-> Join(dst_dir, Relpath(p, src_dir))])
         IN  [copied EXCEPT !.dirs = @ \cup {dst_dir}]

\* f"{original_name} ({format_name} Converted)", a name being a sequence of words.
ConvertedName(original_name, format_name) ==
    original_name \o <<"(", format_name, "Converted)">>

DefaultName == <<"HBN", "EEG", "Dataset">>

\* update_dataset_description
UpdateDatasetDescription(st, dataset_path, format_name) ==
    LET desc_file == Join(dataset_path, DescriptionName)
        desc == st.fs[desc_file].members
        original_name == IF "Name" \in DOMAIN desc THEN desc["Name"] ELSE DefaultName
        info == [OriginalFormat |-> "EEGLAB SET", ConvertedFormat |-> format_name,
                 ConversionDate |-> "now", ConversionTool |-> "emgio"]
        updated == ("Name" :> ConvertedName(original_name, format_name))
                   @@ ("ConversionInfo" :> info) @@ desc
    IN  IF desc_file \notin DOMAIN st.fs THEN st
        ELSE [st EXCEPT !.fs[desc_file] = JsonObject(updated)]

\* The subjects of every dataset, the source's included.
SubjectsAnywhere(st, target_dataset) ==
    {Basename(d) : d \in {e \in st.dirs : StartsWith(Basename(e), SubPrefix)}}

\* for subject_dir in glob.glob(os.path.join(target_dataset, 'sub-*')):
\* subject_id = os.path.basename(subject_dir)
TargetSubjects(st, target_dataset) ==
    {Basename(d) : d \in {e \in st.dirs : /\ Dirname(e) = target_dataset
                                          /\ StartsWith(Basename(e), SubPrefix)}}

\* Steps 5 and 6: the files of the source subjects' eeg/ directories that end
\* with suffix, for the subjects the target has.
CopySubjectFiles(st, source_dataset, target_dataset, suffix) ==
    LET src_eeg_dir(subject_id) == Join(Join(source_dataset, subject_id), EegDir)
        found == UNION {GlobIn(st.fs, src_eeg_dir(s), <<>>, suffix) :
                          s \in {t \in TargetSubjects(st, target_dataset) :
                                    src_eeg_dir(t) \in st.dirs}}
    IN  CopyFiles(st, [p \in found |-> Join(target_dataset, Relpath(p, source_dataset))])

\* complete_bids_dataset: the files and directories afterwards.
CompleteBidsDataset(fsys, dirset, source_dataset, target_dataset, format_name) ==
    LET moved(srcs) == [p \in srcs |-> Join(target_dataset, Relpath(p, source_dataset))]
        st0 == [fs |-> fsys, dirs |-> dirset]
        st1 == CopyFiles(st0, moved({Join(source_dataset, f) : f \in RootFiles}
                                    \cap DOMAIN fsys))
        st2 == CopyFiles(st1, moved(GlobIn(st1.fs, source_dataset, TaskPrefix, EegJson)
                                    \cup GlobIn(st1.fs, source_dataset, TaskPrefix,
                                                EventsJson)))
        st3 == CopyTree(st2, Join(source_dataset, CodeDir), Join(target_dataset, CodeDir))
        st4 == CopyTree(st3, Join(source_dataset, DerivativesDir),
                        Join(target_dataset, DerivativesDir))
        st5 == CopySubjectFiles(st4, source_dataset, target_dataset, UnderscoreEventsTsv)
        st6 == CopySubjectFiles(st5, source_dataset, target_dataset, EegJson)
    IN  UpdateDatasetDescription(st6, target_dataset, format_name)

--------------------------------------------------------------------------
(* SpecBids: complete_bids_datasets.py run as a program                    *)

\* source_dataset, edf_dataset and bdf_dataset of main, written short.
BidsSource == <<"/", "S">>
EdfDataset == <<"/", "E">>
BdfDataset == <<"/", "B">>

FormatNames == <<"EDF", "BDF">>

Subject(k) == SubPrefix \o Decimal(k)

\* The metadata files a dataset may hold, relative to its root.
BidsRels == {DescriptionName,
             ReadmeRel,
             TaskPrefix \o <<"r">> \o EegJson,
             Join(CodeDir, <<"x">>),
             Join(DerivativesDir, <<"y">>),
             Join(Join(Subject(1), EegDir), EventsFilePath),
             Join(Join(Subject(1), EegDir), <<"a">> \o EegJson),
             Join(Join(Subject(2), EegDir), EventsFilePath)}

\* All but at most two of them, or at most two of them.
MostOf(S) == {S \ T : T \in {U \in SUBSET S : Cardinality(U) <= 2}}
FewOf(S) == {T \in SUBSET S : Cardinality(T) <= 2}

\* The content of the file rel of a dataset: a description with or without a
\* Name, or bytes that tell the source's file from the target's.
BidsContent(who, rel, named) ==
    IF rel = DescriptionName
    THEN JsonObject(IF named THEN "Name" :> <<who>> ELSE << >>)
    ELSE [bytes |-> <<who>> \o rel]

BidsFiles(root, who, rels, named) ==
    [p \in {Join(root, rel) : rel \in rels} |->
        BidsContent(who, Relpath(p, root), named)]

DirsOf(fsys) == UNION {Ancestors(p) : p \in DOMAIN fsys}

InitBids ==
    /\ prog = "complete_bids_datasets"
    /\ pc = "start"
    /\ args = Unused
    /\ \E have \in SUBSET {BidsSource, EdfDataset, BdfDataset},
          src \in MostOf(BidsRels), tgt \in FewOf(BidsRels),
          named \in BOOLEAN, sub1 \in BOOLEAN :
         /\ have # {} => BidsSource \in have
         /\ fs = BidsFiles(BidsSource, "source", IF BidsSource \in have THEN src ELSE {}, named)
                 @@ BidsFiles(EdfDataset, "edf", IF EdfDataset \in have THEN tgt ELSE {}, TRUE)
                 @@ BidsFiles(BdfDataset, "bdf", IF BdfDataset \in have THEN tgt ELSE {}, TRUE)
         /\ dirs = have \cup DirsOf(fs)
                   \cup {Join(t, Subject(1)) : t \in IF sub1 THEN have \ {BidsSource} ELSE {}}
    /\ fs0 = fs
    /\ files = <<EdfDataset, BdfDataset>>
    /\ idx = 0
    /\ report = Unused
    /\ counts = Unused
    /\ ret = "-"
    /\ exit_status = -1
    /\ trace = <<>>

\* main up to the first dataset: the check of the source dataset.
BidsMainStart ==
    /\ prog = "complete_bids_datasets" /\ pc = "start"
    /\ IF BidsSource \notin dirs
       THEN pc' = "returned" /\ ret' = "1"
       ELSE pc' = "loop" /\ ret' = ret
    /\ UNCHANGED <<prog, args, dirs, fs, fs0, files, idx, report, counts,
                   exit_status, trace>>

\* `if os.path.exists(edf_dataset): complete_bids_dataset(...)`, then the same
\* for bdf_dataset.
BidsMainComplete ==
    /\ prog = "complete_bids_datasets" /\ pc = "loop" /\ idx < Len(files)
    /\ LET target == files[idx + 1]
           st == CompleteBidsDataset(fs, dirs, BidsSource, target, FormatNames[idx + 1])
       IN  IF target \in dirs
           THEN /\ fs' = st.fs
                /\ dirs' = st.dirs
                /\ trace' = Append(trace, [target |-> target, dirs |-> dirs])
           ELSE UNCHANGED <<fs, dirs, trace>>
    /\ idx' = idx + 1
    /\ UNCHANGED <<prog, pc, args, fs0, files, report, counts, ret, exit_status>>

\* main after both datasets: return 0.
BidsMainReturn ==
    /\ prog = "complete_bids_datasets" /\ pc = "loop" /\ idx = Len(files)
    /\ pc' = "returned"
    /\ ret' = "0"
    /\ UNCHANGED <<prog, args, dirs, fs, fs0, files, idx, report, counts,
                   exit_status, trace>>

NextBids == BidsMainStart \/ BidsMainComplete \/ BidsMainReturn \/ ProcessExit

SpecBids == InitBids /\ [][NextBids]_vars

--------------------------------------------------------------------------
(* utils/compare_signal_formats.py                                         *)

MaxTrioFiles == 2
MaxNFiles == 2

\* n_files as main passes it to find_file_trios.
NFiles == 10

\* os.path.exists
Exists(fsys, dirset, p) == p \in DOMAIN fsys \/ p \in dirset

\* The loop over os.walk(set_dir): the files below set_dir whose name ends
\* with '.set'.
WalkSetFiles(fsys, set_dir) ==
    {p \in DOMAIN fsys :
        StartsWith(p, set_dir \o Slash) /\ EndsWith(Basename(p), DotSet)}

\* The EDF and BDF paths find_file_trios looks for next to a SET file.
TrioOf(set_file, set_dir, edf_dir, bdf_dir) ==
    LET rel_path == Relpath(set_file, set_dir)
    IN  <<set_file,
          Join(edf_dir, Replace(rel_path, DotSet, DotEdf)),
          Join(bdf_dir, Replace(rel_path, DotSet, DotBdf))>>

\* The lists of n different members of S, in any order.
Arrangements(S, n) ==
    {s \in [1..n -> S] : \A i \in 1..n, j \in 1..n : s[i] = s[j] => i = j}

\* random.sample(population, n): the lists it may return.
Sample(S, n) == Arrangements(S, n)

\* find_file_trios: the lists it may return. os.walk yields the files in
\* the order of the file system, so the trios come in any order; more than
\* n_files of them are cut down by random.sample.
FindFileTrios(fsys, dirset, set_dir, edf_dir, bdf_dir, n_files) ==
    LET trios == {t \in {TrioOf(f, set_dir, edf_dir, bdf_dir) :
                            f \in WalkSetFiles(fsys, set_dir)} :
                     Exists(fsys, dirset, t[2]) /\ Exists(fsys, dirset, t[3])}
    IN  IF Cardinality(trios) > n_files
        THEN Sample(trios, n_files)
        ELSE Arrangements(trios, Cardinality(trios))

\* f"{i:02d}"
FileId(i) == IF i < 10 THEN <<"0">> \o Decimal(i) ELSE Decimal(i)

FilePrefix == <<"f", "i", "l", "e", "_">>
ComparisonPng == <<"_", "s", "i", "g", "n", "a", "l", "_", "c", "o", "m", "p", "a", "r",
                   "i", "s", "o", "n", ".", "p", "n", "g">>
DifferencesPng == <<"_", "s", "i", "g", "n", "a", "l", "_", "d", "i", "f", "f", "e", "r",
                    "e", "n", "c", "e", "s", ".", "p", "n", "g">>
CorrelationsPng == <<"_", "c", "o", "r", "r", "e", "l", "a", "t", "i", "o", "n", "s",
                     ".", "p", "n", "g">>
SummaryPng == <<"s", "u", "m", "m", "a", "r", "y", "_", "c", "o", "m", "p", "a", "r", "i",
                "s", "o", "n", ".", "p", "n", "g">>
ResultsJson == <<"c", "o", "m", "p", "a", "r", "i", "s", "o", "n", "_", "r", "e", "s", "u",
                 "l", "t", "s", ".", "j", "s", "o", "n">>

\* load_set_file, load_edf_file, load_bdf_file: whether the reader returns a
\* Raw object; when it raises, the try/except of the loader returns None.
Loads(fsys, file_path, format) ==
    /\ file_path \in DOMAIN fsys
    /\ fsys[file_path].format = format
    /\ fsys[file_path].loadable

\* compare_file_trio: how it ends ("None" returned, a "result" returned, or
\* "raise" when an exception leaves it), the result and the files and
\* directories afterwards. outcome says whether the metrics or the plots
\* raise.
CompareFileTrio(fsys, dirset, trio, output_dir, file_id, outcome) ==
    LET raw_set == fsys[trio[1]]
        raw_edf == fsys[trio[2]]
        raw_bdf == fsys[trio[3]]
        file_output_dir == Join(output_dir, FilePrefix \o file_id)
        plot(suffix) == Join(file_output_dir, file_id \o suffix)
        untouched(end) == [fs |-> fsys, dirs |-> dirset, end |-> end, result |-> <<>>]
    IN  IF ~(/\ Loads(fsys, trio[1], "set") /\ Loads(fsys, trio[2], "edf")
             /\ Loads(fsys, trio[3], "bdf"))
        THEN untouched("None")
        ELSE LET common_channels == SeqToSet(raw_set.channels)
                                    \cap SeqToSet(raw_edf.channels)
                                    \cap SeqToSet(raw_bdf.channels)
             IN  IF common_channels = {}
                 THEN untouched("None")
                 ELSE IF outcome = "metrics_raise"
                 THEN untouched("raise")
                 ELSE IF outcome = "plot_raise"
                 THEN [fs |-> fsys, dirs |-> dirset \cup {file_output_dir},
                       end |-> "raise", result |-> <<>>]
                 ELSE [fs |-> [p \in {plot(ComparisonPng), plot(DifferencesPng),
                                      plot(CorrelationsPng)} |-> [bytes |-> "png"]]
                               @@ fsys,
                       dirs |-> dirset \cup {file_output_dir},
                       end |-> "result",
                       result |-> [file_id |-> file_id,
                                   files |-> [set |-> Basename(trio[1]),
                                              edf |-> Basename(trio[2]),
                                              bdf |-> Basename(trio[3])],
                                   common_channels |-> Cardinality(common_channels)]]

\* The three dataset paths and the output directory main hard-codes, shortened.
SetDatasetDir == <<"/", "s">>
EdfDatasetDir == <<"/", "e">>
BdfDatasetDir == <<"/", "b">>
CmpOutputDir == <<"/", "r">>

\* The recordings of the SET dataset, relative to its root, and what the
\* other two datasets hold for each of them.
TrioRels == {Decimal(k) \o DotSet : k \in 1..MaxTrioFiles}
            \cup {<<"1">> \o DotSet \o DotSet}
TrioKinds == {"absent", "set_only", "set_edf", "set_bdf", "trio", "edf_unloadable",
              "bdf_other_channels"}

Recording(format, loadable, channels, rel) ==
    [format |-> format, loadable |-> loadable, channels |-> channels, data |-> rel]

TrioFiles(rel, kind) ==
    LET t == TrioOf(Join(SetDatasetDir, rel), SetDatasetDir, EdfDatasetDir, BdfDatasetDir)
        s == t[1] :> Recording("set", TRUE, <<"E1", "Cz">>, rel)
        e == t[2] :> Recording("edf", kind # "edf_unloadable", <<"E1", "Cz">>, rel)
        b == t[3] :> Recording("bdf", TRUE,
                               IF kind = "bdf_other_channels" THEN <<"X1">>
                               ELSE <<"E1", "Cz">>, rel)
    IN  CASE kind = "absent" -> << >>
          [] kind = "set_only" -> s
          [] kind = "set_edf" -> s @@ e
          [] kind = "set_bdf" -> s @@ b
          [] OTHER -> s @@ e @@ b

RECURSIVE Merge(_, _)
Merge(S, f) ==
    IF S = {} THEN << >>
    ELSE LET x == CHOOSE y \in S : TRUE IN f[x] @@ Merge(S \ {x}, f)

InitCompare ==
    /\ prog \in {"find_file_trios", "compare_signal_formats"}
    /\ pc = "start"
    /\ \E n \in IF prog = "find_file_trios" THEN 0..MaxNFiles ELSE {NFiles} :
         args = [set_dataset |-> SetDatasetDir, edf_dataset |-> EdfDatasetDir,
                 bdf_dataset |-> BdfDatasetDir, output_dir |-> CmpOutputDir,
                 n_files |-> n]
    /\ dirs = {SetDatasetDir, EdfDatasetDir, BdfDatasetDir}
    /\ \E kind \in [TrioRels -> TrioKinds] :
         fs = Merge(TrioRels, [rel \in TrioRels |-> TrioFiles(rel, kind[rel])])
    /\ fs0 = fs
    /\ files = <<>>
    /\ idx = 0
    /\ report = <<>>
    /\ counts = Unused
    /\ ret = "-"
    /\ exit_status = -1
    /\ trace = <<>>

\* A call of find_file_trios on its own.
CallFindFileTrios ==
    /\ prog = "find_file_trios" /\ pc = "start"
    /\ \E trios \in FindFileTrios(fs, dirs, args.set_dataset, args.edf_dataset,
                                  args.bdf_dataset, args.n_files) :
         /\ files' = trios
         /\ ret' = trios
    /\ pc' = "done"
    /\ UNCHANGED <<prog, args, dirs, fs, fs0, idx, report, counts, exit_status, trace>>

\* main up to its loop: the output directory made, the trios found, 1
\* returned when there is none.
CmpMainStart ==
    /\ prog = "compare_signal_formats" /\ pc = "start"
    /\ dirs' = dirs \cup {args.output_dir}
    /\ \E trios \in FindFileTrios(fs, dirs, args.set_dataset, args.edf_dataset,
                                  args.bdf_dataset, args.n_files) :
         /\ files' = trios
         /\ IF trios = <<>>
            THEN pc' = "returned" /\ ret' = "1"
            ELSE pc' = "loop" /\ ret' = ret
    /\ report' = <<>>
    /\ UNCHANGED <<prog, args, fs, fs0, idx, counts, exit_status, trace>>

\* One iteration of `for i, (set_file, edf_file, bdf_file) in enumerate(trios, 1)`
\* with its try/except: the result appended when there is one, an exception
\* printed and the loop continued.
CmpMainTrio ==
    /\ prog = "compare_signal_formats" /\ pc = "loop" /\ idx < Len(files)
    /\ \E outcome \in {"ok", "metrics_raise", "plot_raise"} :
         LET r == CompareFileTrio(fs, dirs, files[idx + 1], args.output_dir,
                                  FileId(idx + 1), outcome)
         IN  /\ fs' = r.fs
             /\ dirs' = r.dirs
             /\ report' = IF r.end = "result" THEN Append(report, r.result)
                           ELSE report
             /\ idx' = idx + 1
             /\ trace' = Append(trace, [trio |-> files[idx + 1], end |-> r.end])
    /\ UNCHANGED <<prog, pc, args, fs0, files, counts, ret, exit_status>>

\* main after its loop: 1 returned when no trio was compared, otherwise the
\* summary plot and comparison_results.json written and 0 returned. An
\* exception of create_summary_plots leaves main and ends the process.
CmpMainFinish ==
    /\ prog = "compare_signal_formats" /\ pc = "loop" /\ idx = Len(files)
    /\ IF report = <<>>
       THEN /\ pc' = "returned" /\ ret' = "1"
            /\ UNCHANGED <<fs, exit_status>>
       ELSE \E summary_ok \in BOOLEAN :
              IF summary_ok
              THEN /\ fs' = (Join(args.output_dir, SummaryPng) :> [bytes |-> "png"])
                            @@ (Join(args.output_dir, ResultsJson) :> report) @@ fs
                   /\ pc' = "returned" /\ ret' = "0"
                   /\ UNCHANGED exit_status
              ELSE /\ pc' = "exited" /\ exit_status' = 1
                   /\ UNCHANGED <<fs, ret>>
    /\ UNCHANGED <<prog, args, dirs, fs0, files, idx, report, counts, trace>>

NextCompare == CallFindFileTrios \/ CmpMainStart \/ CmpMainTrio \/ CmpMainFinish
               \/ ProcessExit

SpecCompare == InitCompare /\ [][NextCompare]_vars

--------------------------------------------------------------------------
(* Claims about fix_events_file                                            *)

\* C1 (as claimed): after fix_events_file has run on a file, every cell that
\* was empty in a column other than 'onset' reads 'n/a' in the file on disk,
\* also in a column whose cells are all empty and in a purely numeric column
\* outside the hard-coded name list.
C1_EveryEmptyCellReadsNA ==
    (prog = "fix_events_file" /\ idx >= 1) =>
        LET before == trace[1].before
            after == fs[EventsFilePath]
        IN  \A j \in 1..Len(before.header) : \A k \in 1..NRows(before) :
                (before.header[j] # "onset" /\ before.cols[j][k] = EmptyText)
                    => after.cols[j][k] = NAText


--------------------------------------------------------------------------
(* Claims about process_bdf_remove_cz.py                                   *)

CzRan == prog = "process_bdf_remove_cz" /\ pc \in {"returned", "exited"} /\ Len(files) > 0

NamedCz(table) ==
    {k \in 1..NRows(table) : HasCol(table, "name") /\ table.cols[ColIndex(table, "name")][k] = CzName}

\* C2 (as claimed): after the script reports success for a BDF file that has a
\* channels.tsv sidecar, the signal file has exactly one channel fewer than
\* before the run, channels.tsv has exactly one row fewer, and no row named
\* 'Cz' remains in channels.tsv.
C2_BothCountsDecreaseByOne ==
    CzRan =>
        \A k \in 1..Len(report.bdf_processing) :
            LET e == report.bdf_processing[k]
                side == SidecarPath(e.file)
            IN  (e.status = "success" /\ side \in DOMAIN fs0) =>
                    /\ Len(fs[e.file].channels) = Len(fs0[e.file].channels) - 1
                    /\ NRows(fs[side]) = NRows(fs0[side]) - 1
                    /\ NamedCz(fs[side]) = {}

\* C6 (as claimed): outside dry-run the script exits with status 1 if any
\* per-file step (a BDF file or the update of its channels.tsv) ended with
\* status 'error', and with status 0 when every step ended with 'success'.
C6_ExitStatusCountsEveryError ==
    (CzRan /\ pc = "exited" /\ ~args.dry_run) =>
        LET steps == report.bdf_processing \o report.channels_tsv_updates
        IN  /\ (\E k \in 1..Len(steps) : steps[k].status = "error") => exit_status = 1
            /\ (\A k \in 1..Len(steps) : steps[k].status = "success") => exit_status = 0

\* C8 (as claimed): with backups enabled, whenever the script overwrites a
\* BDF file or a channels.tsv, '<path>.backup' exists and holds the content
\* the file had before the script first edited it.
C8_OverwritePrecededByBackup ==
    (prog = "process_bdf_remove_cz" /\ ~args.no_backup) =>
        \A k \in 1..Len(trace) :
            (trace[k].op \in {"to_edf", "to_csv"} /\ trace[k].path \in DOMAIN fs0) =>
                /\ (trace[k].path \o DotBackup) \in DOMAIN fs
                /\ fs[trace[k].path \o DotBackup] = fs0[trace[k].path]

\* C9 (as claimed): run with --no-backup, the script creates no '.backup'
\* file, neither for a BDF file nor for a channels.tsv.
C9_NoBackupCreatesNoBackup ==
    (prog = "process_bdf_remove_cz" /\ args.no_backup) =>
        \A p \in DOMAIN fs \ DOMAIN fs0 : ~EndsWith(p, DotBackup)

\* C10: run with --dry-run on an existing dataset with BDF files, the script
\* changes no file and creates none (no BDF, channels.tsv, backup or report),
\* never calls process_bdf_file or update_channels_tsv, and exits with 0.
C10_DryRunChangesNothing ==
    (prog = "process_bdf_remove_cz" /\ args.dry_run) =>
        /\ fs = fs0
        /\ trace = <<>>
        /\ (pc = "exited" /\ DatasetDir \in dirs
                /\ GlobSuffix(fs0, DatasetDir, EegBdf) # {}) => exit_status = 0

\* A dry run that went through the loop over a file it would have rewritten.
C10_Witness ==
    /\ prog = "process_bdf_remove_cz" /\ args.dry_run /\ pc = "exited"
    /\ idx = Len(files) /\ Len(files) >= 1
    /\ \E k \in 1..Len(files) :
          fs0[files[k]].loadable /\ Len(fs0[files[k]].channels) = ExpectedChannels

--------------------------------------------------------------------------
(* Claims about the conversion scripts                                     *)

FoundSetFiles == GlobSuffix(fs0, InputDir, DotSet)

\* C3: a conversion script exits with status 0 if and only if the input
\* directory exists, at least one SET file was found and every SET file
\* converted with status 'success'; otherwise it exits with status 1.
C3_ExitZeroIffFullSuccess ==
    (prog \in ConvScripts /\ pc = "exited") =>
        LET full == /\ InputDir \in dirs
                    /\ FoundSetFiles # {}
                    /\ \A f \in FoundSetFiles :
                          \E k \in 1..Len(report.conversions) :
                              /\ report.conversions[k].input_file = f
                              /\ report.conversions[k].conversion_status = "success"
                    /\ \A k \in 1..Len(report.conversions) :
                          report.conversions[k].conversion_status = "success"
        IN  /\ exit_status \in {0, 1}
            /\ exit_status = 0 <=> full

\* A run over two SET files that exited with status 0.
C3_Witness ==
    prog \in ConvScripts /\ pc = "exited" /\ exit_status = 0 /\ Len(files) >= 2

\* C4: a failure on one SET file never stops the run: every found SET file is
\* attempted exactly once, in sorted path order, and 'conversions' ends with
\* exactly one entry per SET file in that order.
C4_EveryFileAttemptedOnceInOrder ==
    (prog \in ConvScripts /\ pc \in {"returned", "exited"} /\ InputDir \in dirs) =>
        /\ Len(trace) = Cardinality(FoundSetFiles)
        /\ SeqToSet(trace) = FoundSetFiles
        /\ \A k \in 1..(Len(trace) - 1) : StrLess(trace[k], trace[k + 1])
        /\ FoundSetFiles # {} =>
              /\ Len(report.conversions) = Len(trace)
              /\ \A k \in 1..Len(trace) : report.conversions[k].input_file = trace[k]

\* A finished run whose first file failed and whose second file converted.
C4_Witness ==
    /\ prog \in ConvScripts /\ pc = "exited" /\ Len(trace) >= 2
    /\ report.conversions[1].conversion_status = "error"
    /\ report.conversions[2].conversion_status = "success"

\* C5 (as claimed): every entry of 'conversions' with conversion_status
\* 'error' has both 'error_message' and 'error_traceback', whichever except
\* block produced it.
C5_ErrorEntriesCarryTraceback ==
    (prog \in ConvScripts /\ pc # "start" /\ Len(files) > 0) =>
        \A k \in 1..Len(report.conversions) :
            report.conversions[k].conversion_status = "error" =>
                {"error_message", "error_traceback"} \subseteq DOMAIN report.conversions[k]

--------------------------------------------------------------------------
(* Claims about the exit status of fix_events_duration.py                  *)

\* C7 (as claimed): run as a command-line program, the script terminates with
\* exit status 1 when its input root directory does not exist, and with
\* status 0 when it exists and every file was processed without error.
C7_ExitStatusOneWithoutInputRoot ==
    (prog = "fix_events_duration" /\ pc = "exited") =>
        /\ BasePath \notin dirs => exit_status = 1
        /\ BasePath \in dirs => exit_status = 0

--------------------------------------------------------------------------
(* Claims about process_metadata.py                                        *)

PMRan == prog = "process_metadata" /\ pc \in {"returned", "exited"} /\ InputDir \in dirs

InputFiles == {p \in DOMAIN fs0 : StartsWith(p, InputDir \o Slash)}

PMOut(p) == OutputFile(p, args.input_dir, args.output_dir)

\* C11 (as claimed): after a run from an input tree to a separate output tree,
\* every input file that is neither a '*_eeg.json' sidecar nor an
\* '*events.tsv' table is copied unchanged to the same relative path of the
\* output tree unless its extension is .set or .fdt, and the only input files
\* with no counterpart in the output tree are those with extension .set or
\* .fdt.
C11_RemainingFilesCopied ==
    (PMRan /\ args.output_dir # args.input_dir) =>
        \A p \in InputFiles :
            /\ (/\ p \notin Rglob(fs0, InputDir, EegJson)
                /\ p \notin Rglob(fs0, InputDir, EventsSuffix)
                /\ Suffix(p) \notin {DotSet, DotFdt})
                    => (PMOut(p) \in DOMAIN fs /\ fs[PMOut(p)] = fs0[p])
            /\ PMOut(p) \notin DOMAIN fs => Suffix(p) \in {DotSet, DotFdt}

PMJsonDone == prog = "process_metadata" /\ pc \in {"events", "copy", "returned", "exited"}

InputJsonObjects == {p \in Rglob(fs0, InputDir, EegJson) : fs0[p].json = "object"}

\* What C12 says of the file written for the input sidecar p.
JsonOutputAsClaimed(p) ==
    /\ PMOut(p) \in DOMAIN fs
    /\ fs[PMOut(p)].json = "object"
    /\ LET old == fs0[p].members
           new == fs[PMOut(p)].members
       IN  /\ DOMAIN new = DOMAIN old \cup {"SamplingFrequency"}
           /\ new["SamplingFrequency"] = 100
           /\ \A k \in DOMAIN old \ {"SamplingFrequency"} : new[k] = old[k]

PMEventsDone == prog = "process_metadata" /\ pc \in {"copy", "returned", "exited"}

\* What C13 says of the table written for the input events table p.
EventsOutputAsClaimed(p) ==
    /\ PMOut(p) \in DOMAIN fs
    /\ LET a == fs0[p]
           b == fs[PMOut(p)]
       IN  /\ b.header = SelectSeq(a.header, LAMBDA name : name # "sample")
           /\ NRows(b) = NRows(a)
           /\ \A j \in 1..Len(a.header) : \A k \in 1..NRows(a) :
                 a.header[j] # "sample" =>
                    LET after == b.cols[ColIndex(b, a.header[j])][k]
                    IN  /\ a.cols[j][k] = NAText => after = NAText
                        /\ (a.header[j] # "onset" /\ a.cols[j][k] = EmptyText)
                              => after = NAText

\* C13 (as claimed): for every events.tsv under the input tree,
\* process_events_files writes an output table with the input's columns minus
\* 'sample', in the same order and with as many rows, in which every cell that
\* read 'n/a' still reads 'n/a' and every empty cell of a column other than
\* 'onset' reads 'n/a'.
C13_EveryEventsFileWritten ==
    PMEventsDone =>
        \A p \in Rglob(fs0, InputDir, EventsSuffix) : EventsOutputAsClaimed(p)

\* C13 (amended): the same for every events.tsv that pandas can read as a
\* table (a file with a header line).
C13_SampleDroppedNAKept ==
    PMEventsDone =>
        \A p \in Rglob(fs0, InputDir, EventsSuffix) :
            Readable(fs0[p]) => EventsOutputAsClaimed(p)

\* A finished run over a table with a 'sample' column beside a column that
\* held an 'n/a' cell and an empty cell.
C13_Witness ==
    /\ PMRan
    /\ \E p \in Rglob(fs0, InputDir, EventsSuffix) :
          /\ Readable(fs0[p])
          /\ HasCol(fs0[p], "sample") /\ HasCol(fs0[p], "duration")
          /\ fs0[p].cols[ColIndex(fs0[p], "duration")] = <<NAText, EmptyText>>
          /\ fs[PMOut(p)].header = <<"duration">>

\* C20 (as claimed): process_events_files does not modify onset times: every
\* cell of the 'onset' column of the output events.tsv equals the
\* corresponding input cell; an empty onset cell is still empty, not 'n/a'.
C20_OnsetCellsUnchanged ==
    PMEventsDone =>
        \A p \in Rglob(fs0, InputDir, EventsSuffix) :
            (Readable(fs0[p]) /\ HasCol(fs0[p], "onset")) =>
                /\ PMOut(p) \in DOMAIN fs
                /\ HasCol(fs[PMOut(p)], "onset")
                /\ fs[PMOut(p)].cols[ColIndex(fs[PMOut(p)], "onset")]
                      = fs0[p].cols[ColIndex(fs0[p], "onset")]

--------------------------------------------------------------------------
(* Claims about complete_bids_datasets.py                                  *)

\* C14 (as claimed): complete_bids_dataset copies only files missing from the
\* target: every metadata file (root-level, task-level, code/, derivatives/,
\* subject-level) that exists in the target before the call keeps its content,
\* dataset_description.json alone excepted.
C14_ExistingTargetFilesKept ==
    prog = "complete_bids_datasets" =>
        \A k \in 1..Len(trace) :
            \A q \in DOMAIN fs0 :
                (StartsWith(q, trace[k].target \o Slash) /\ Basename(q) # DescriptionName)
                    => fs[q] = fs0[q]

--------------------------------------------------------------------------
(* Claims about the JSON reports                                           *)

ReportScripts == ConvScripts \cup {"process_bdf_remove_cz"}

\* The report file of the run.
ReportFile == IF prog \in ConvScripts THEN ReportPath(args.output_dir)
              ELSE CzReportPath(args.dataset_path)

RunInputDir == IF prog \in ConvScripts THEN args.input_dir ELSE args.dataset_path

RunDryRun == prog = "process_bdf_remove_cz" /\ args.dry_run

\* The run got past both early exits: its input directory exists and files
\* were found.
RunHasFiles == RunInputDir \in dirs /\ Len(files) > 0

\* While main has not left its loop there is no report file; once main has
\* returned there is one unless the run exited early or was a dry run.
ReportOnlyAfterLoop ==
    prog \in ReportScripts =>
        /\ pc \in {"start", "loop"} => ReportFile \notin DOMAIN fs
        /\ pc \in {"returned", "exited"} =>
              (ReportFile \in DOMAIN fs <=> (RunHasFiles /\ ~RunDryRun))

\* A step that writes the report file is the step that leaves the loop after
\* its last iteration.
ReportWrittenLeavingLoop ==
    (/\ prog \in ReportScripts
     /\ ReportFile \in DOMAIN fs'
     /\ (ReportFile \notin DOMAIN fs \/ fs'[ReportFile] # fs[ReportFile]))
        => (pc = "loop" /\ idx = Len(files) /\ pc' = "returned")

\* C15: in the conversion scripts and the Cz-removal script the report file is
\* written at most once per run and only after the last input file has been
\* processed: never on an early exit (missing input directory, no files
\* found) or in dry-run, and exactly once in every other run, also when some
\* or all files failed.
C15_ReportWrittenOnceAtEnd ==
    []ReportOnlyAfterLoop /\ [][ReportWrittenLeavingLoop]_vars

\* A finished conversion run in which every file failed and whose report is
\* on disk.
C15_Witness ==
    /\ prog \in ConvScripts /\ pc = "exited" /\ Len(files) >= 2
    /\ counts.successful_conversions = 0
    /\ ReportFile \in DOMAIN fs

CountOf(entries, field, status) ==
    Cardinality({k \in 1..Len(entries) : entries[k][field] = status})

\* C16: in every report a conversion script writes, successful_conversions +
\* failed_conversions = total_files = the length of 'conversions',
\* successful_conversions is the number of entries with conversion_status
\* 'success' and failed_conversions the number with 'error'; in every report
\* the Cz-removal script writes, bdf_successful + bdf_failed =
\* bdf_files_processed = the length of 'bdf_processing'.
C16_ReportCountersConsistent ==
    (prog \in ReportScripts /\ ReportFile \in DOMAIN fs) =>
        LET r == fs[ReportFile]
        IN  IF prog \in ConvScripts
            THEN /\ r.successful_conversions + r.failed_conversions = r.total_files
                 /\ r.total_files = Len(r.conversions)
                 /\ r.successful_conversions
                       = CountOf(r.conversions, "conversion_status", "success")
                 /\ r.failed_conversions
                       = CountOf(r.conversions, "conversion_status", "error")
            ELSE /\ r.bdf_successful + r.bdf_failed = r.bdf_files_processed
                 /\ r.bdf_files_processed = Len(r.bdf_processing)

\* A report of the Cz-removal script with a file that was skipped for its
\* channel count.
C16_Witness ==
    /\ prog = "process_bdf_remove_cz" /\ ReportFile \in DOMAIN fs
    /\ \E k \in 1..Len(fs[ReportFile].bdf_processing) :
          fs[ReportFile].bdf_processing[k].status = "skipped"

--------------------------------------------------------------------------
(* Claims about create_output_path, the removed channel and the onset column *)

\* p without its last four characters, the final extension of a SET file.
WithoutExtension(p) == SubSeq(p, 1, Len(p) - Len(DotSet))

\* Where C17 says the SET file set_file is exported to.
ExportClaimed(set_file) ==
    Join(OutputRoot(prog, args.output_dir),
         WithoutExtension(Relpath(set_file, args.input_dir))) \o TargetExt(prog)

\* C17 (as claimed): the conversion scripts preserve the directory structure:
\* the SET file at relative path P.set under the input directory is exported
\* to <output_dir>/P.bdf (convert_set_to_bdf.py) or to
\* <output_base>/edf_converted/P.edf (convert_set_to_edf.py), whatever the
\* directory and file names are, also when they contain '.set', '.bdf' or
\* '.edf' elsewhere than as the final extension.
C17_ExportPathKeepsStructure ==
    (prog \in ConvScripts /\ pc # "start" /\ Len(files) > 0) =>
        \A k \in 1..Len(report.conversions) :
            LET e == report.conversions[k]
            IN  "output_file" \in DOMAIN e =>
                    /\ e.output_file = ExportClaimed(e.input_file)
                    /\ e.conversion_status = "success" => ExportClaimed(e.input_file) \in DOMAIN fs

\* C18 (as claimed): after the script reports success for a BDF file, the
\* channel it removed is Cz: the report's 'removed_channel' is 'Cz' and the
\* rewritten signal file has no channel named 'Cz'.
C18_RemovedChannelIsCz ==
    CzRan =>
        \A k \in 1..Len(report.bdf_processing) :
            LET e == report.bdf_processing[k]
            IN  e.status = "success" =>
                    /\ e.removed_channel = CzName
                    /\ CzName \notin SeqToSet(fs[e.file].channels)

\* The content of the file after the k-th call of fix_events_file.
AfterCall(k) == IF k < Len(trace) THEN trace[k + 1].before ELSE fs[EventsFilePath]

\* C19 (as claimed): fix_events_file never modifies the 'onset' column:
\* whenever it rewrites the file, every cell of 'onset' in the written file
\* equals the cell of the file before the call, empty and 'n/a' cells included.
C19_OnsetColumnNeverModified ==
    prog = "fix_events_file" =>
        \A k \in 1..Len(trace) :
            (trace[k].written /\ HasCol(trace[k].before, "onset")) =>
                AfterCall(k).cols[ColIndex(AfterCall(k), "onset")]
                    = trace[k].before.cols[ColIndex(trace[k].before, "onset")]

--------------------------------------------------------------------------
(* Claims about what the Cz-removal script leaves untouched                *)

\* The run called update_channels_tsv on path.
UpdateCalledOn(path) ==
    \E k \in 1..Len(trace) : trace[k] = [op |-> "update_channels_tsv", path |-> path]

\* C21 (as claimed): a BDF file whose processing does not end with status
\* 'success' is left untouched together with its sidecar: the file is not
\* rewritten, no '.backup' is created for it and update_channels_tsv is not
\* called for its channels.tsv, so a channels.tsv is modified only when its
\* BDF file was successfully rewritten in the same run.
C21_NonSuccessLeftUntouched ==
    CzRan =>
        /\ \A k \in 1..Len(report.bdf_processing) :
              LET e == report.bdf_processing[k]
              IN  e.status # "success" =>
                     /\ fs[e.file] = fs0[e.file]
                     /\ (e.file \o DotBackup) \in DOMAIN fs
                           => (e.file \o DotBackup) \in DOMAIN fs0
                     /\ ~UpdateCalledOn(SidecarPath(e.file))
        /\ \A p \in DOMAIN fs0 :
              (EndsWith(p, ChannelsTsv) /\ fs[p] # fs0[p]) =>
                  \E k \in 1..Len(report.bdf_processing) :
                      /\ report.bdf_processing[k].status = "success"
                      /\ SidecarPath(report.bdf_processing[k].file) = p

--------------------------------------------------------------------------
(* Claims about what fix_events_file writes                                *)

\* C22 (as claimed): fix_events_file writes the file back only if changes were
\* made: whenever it returns False the file is unchanged, and whenever it
\* returns True at least one cell of the file changed from empty to 'n/a'.
C22_WrittenOnlyWithChanges ==
    prog = "fix_events_file" =>
        \A k \in 1..Len(trace) :
            LET before == trace[k].before
                after == AfterCall(k)
            IN  /\ trace[k].ret = "False" => after = before
                /\ trace[k].ret = "True" =>
                      \E j \in 1..Len(before.header) : \E r \in 1..NRows(before) :
                          before.cols[j][r] = EmptyText /\ after.cols[j][r] = NAText

\* C26 (as claimed): whenever fix_events_file rewrites the file it changes only
\* cells that were empty: every cell that was not empty before the call, in
\* any column, has the same text afterwards; a cell that read 'n/a' is not
\* turned into an empty cell.
C26_OnlyEmptyCellsChange ==
    prog = "fix_events_file" =>
        \A k \in 1..Len(trace) :
            LET before == trace[k].before
                after == AfterCall(k)
            IN  trace[k].written =>
                    \A j \in 1..Len(before.header) : \A r \in 1..NRows(before) :
                        before.cols[j][r] # EmptyText => after.cols[j][r] = before.cols[j][r]

\* C27 (as claimed): the events fixer is idempotent: a second call of
\* fix_events_file right after a first one returns False and leaves the file
\* unchanged.
C27_SecondCallReturnsFalse ==
    (prog = "fix_events_file" /\ Len(trace) >= 2) =>
        /\ trace[2].ret = "False"
        /\ AfterCall(2) = trace[2].before

--------------------------------------------------------------------------
(* Claims about the subject-level files of complete_bids_dataset           *)

IsSubjectDir(d, dataset) == Dirname(d) = dataset /\ StartsWith(Basename(d), SubPrefix)

\* The '*_events.tsv' and '*_eeg.json' files of a subject's eeg/ directory in
\* the source dataset.
SourceSubjectFiles(subject_id) ==
    {p \in DOMAIN fs0 :
        /\ Dirname(p) = Join(Join(BidsSource, subject_id), EegDir)
        /\ (EndsWith(Basename(p), UnderscoreEventsTsv) \/ EndsWith(Basename(p), EegJson))}

\* C23: complete_bids_dataset copies subject-level '*_events.tsv' and
\* '*_eeg.json' files only for subjects that already have a 'sub-*' directory
\* in the target: it creates no 'sub-*' directory in the target, and for every
\* subject present in both trees every such file of the source subject's eeg/
\* directory is in the target subject's eeg/ directory afterwards.
C23_SubjectFilesOnlyForTargetSubjects ==
    prog = "complete_bids_datasets" =>
        \A k \in 1..Len(trace) :
            LET target == trace[k].target
            IN  /\ \A d \in dirs : IsSubjectDir(d, target) => d \in trace[k].dirs
                /\ \A p \in DOMAIN fs :
                      (StartsWith(p, Join(target, SubPrefix)))
                          => \E d \in trace[k].dirs :
                                IsSubjectDir(d, target) /\ StartsWith(p, d \o Slash)
                /\ \A d \in trace[k].dirs :
                      (IsSubjectDir(d, target) /\ Join(BidsSource, Basename(d)) \in dirs) =>
                          \A p \in SourceSubjectFiles(Basename(d)) :
                              /\ Join(target, Relpath(p, BidsSource)) \in DOMAIN fs
                              /\ fs[Join(target, Relpath(p, BidsSource))] = fs0[p]

\* A finished run whose source had files for two subjects and whose EDF target
\* had a directory, without those files, for the first subject only.
C23_Witness ==
    /\ prog = "complete_bids_datasets" /\ pc = "exited" /\ Len(trace) >= 1
    /\ trace[1].target = EdfDataset
    /\ Join(EdfDataset, Subject(1)) \in trace[1].dirs
    /\ Join(EdfDataset, Subject(2)) \notin dirs
    /\ SourceSubjectFiles(Subject(2)) # {}
    /\ Cardinality(SourceSubjectFiles(Subject(1))) = 2
    /\ \A p \in SourceSubjectFiles(Subject(1)) :
          /\ Join(EdfDataset, Relpath(p, BidsSource)) \notin DOMAIN fs0
          /\ Join(EdfDataset, Relpath(p, BidsSource)) \in DOMAIN fs


--------------------------------------------------------------------------
(* Claims about the output paths of one conversion run                    *)

\* The entries of the report that name the file they exported to.
EntriesWithOutput ==
    IF prog \in ConvScripts /\ report # Unused
    THEN {k \in 1..Len(report.conversions) :
            "output_file" \in DOMAIN report.conversions[k]}
    ELSE {}

\* C25: within one run of a conversion script, two distinct SET files found
\* under the input directory are never exported to the same output path:
\* the entries of two different input files name different output files.
C25_DistinctInputsDistinctOutputs ==
    \A i \in EntriesWithOutput, j \in EntriesWithOutput :
        report.conversions[i].input_file # report.conversions[j].input_file
            => report.conversions[i].output_file # report.conversions[j].output_file

--------------------------------------------------------------------------
(* Claims about compare_signal_formats.py                                  *)

\* The trios find_file_trios returned, once it has.
ReturnedTrios ==
    IF prog \in {"find_file_trios", "compare_signal_formats"} /\ pc # "start"
    THEN files ELSE <<>>

TrioFilesExist ==
    \A k \in 1..Len(ReturnedTrios) : \A m \in 1..3 :
        Exists(fs0, {SetDatasetDir, EdfDatasetDir, BdfDatasetDir}, ReturnedTrios[k][m])

TrioSharesRelativePath ==
    \A k \in 1..Len(ReturnedTrios) :
        LET t == ReturnedTrios[k]
            stem == WithoutExtension(Relpath(t[1], args.set_dataset))
        IN  /\ Relpath(t[2], args.edf_dataset) = stem \o DotEdf
            /\ Relpath(t[3], args.bdf_dataset) = stem \o DotBdf

TrioSetFilesDistinct ==
    \A i \in 1..Len(ReturnedTrios), j \in 1..Len(ReturnedTrios) :
        ReturnedTrios[i][1] = ReturnedTrios[j][1] => i = j

CmpMainLeft == prog = "compare_signal_formats" /\ pc \in {"returned", "exited"}

MainReturnsOneWithoutComparison ==
    (CmpMainLeft /\ pc = "returned" /\ (files = <<>> \/ report = <<>>)) => ret = "1"

EveryTrioCompared ==
    CmpMainLeft =>
        /\ Len(trace) = Len(files)
        /\ \A k \in 1..Len(files) : trace[k].trio = files[k]

\* C24: find_file_trios returns at most n_files trios, each made of three
\* files that exist and share the same path relative to their dataset roots
\* up to the extension, with no SET file in more than one trio; main returns
\* 1 when no trio is found or none could be compared, and an exception in one
\* trio does not stop the comparison of the following ones.
C24_TriosMatchAndMainCompletes ==
    /\ Len(ReturnedTrios) > 0 => Len(ReturnedTrios) <= args.n_files
    /\ TrioFilesExist
    /\ TrioSharesRelativePath
    /\ TrioSetFilesDistinct
    /\ MainReturnsOneWithoutComparison
    /\ EveryTrioCompared
==========================================================================
